---------------------------- MODULE Spec2Model ----------------------------
(***************************************************************************)
(* A model of the usb_vhci user-space driver library: the Controller with  *)
(* its port occupancy bitmap and work-receiver split flag, the Remote and  *)
(* WorkReceiver handles that carry the raw descriptor number, the ioctl    *)
(* results the kernel side can give, and the clients of the library.       *)
(***************************************************************************)
EXTENDS Integers, Sequences, FiniteSets, TLC

(***************************************************************************)
(* Bounds of the model.                                                    *)
(***************************************************************************)
\* Controller objects the process may hold at the same time.
NumControllers == 2
\* Largest port count a Controller is opened with (the code allows 1..31).
MaxPorts == 2
\* WorkReceiver values alive at the same time.
MaxReceivers == 3

Slots == 1..NumControllers
\* Descriptor numbers: 0, 1 and 2 are the standard streams, and open(2)
\* returns the lowest number that is not in use.
Fds == 3..(2 + NumControllers)

VARIABLES
    controllers,   \* slot -> the Controller value held there (NoController: none)
    receivers,     \* WorkReceiver values alive: handle -> how many
    remotes,       \* Remote values alive (Remote is Clone: a set)
    panicked,      \* the thread has panicked
    last,          \* the last call and what it returned
    kurbs,         \* kernel side: URB handle -> where the request stands
    cancelq,       \* kernel side: handles with a cancel notice queued
    urbs,          \* URB handle -> the Urb value the client holds (NoUrb: none)
    hist,          \* history of the operations issued per URB handle
    request,       \* the request structure of the last fetch-data or give-back
    pc,            \* driver loop: where main() stands ("off": no loop runs)
    devices,       \* driver loop: port -> address (the `devices' map)
    port_stats,    \* driver loop: port -> previous snapshot (the `port_stats' map)
    issued,        \* driver loop: port calls issued by the last iteration
    seen,          \* driver loop: the snapshots the last PortStat arm compared
    arg,           \* the input of the pure function under check
    ret,           \* its result (NotCalled before the call)
    inflight       \* thread -> the fetch-work call it is blocked in (NoFlight: none)

ctlVars == <<controllers, receivers, remotes, panicked>>
urbVars == <<kurbs, cancelq, urbs, hist, request>>
loopVars == <<pc, devices, port_stats, issued, seen>>
pureVars == <<arg, ret>>
\* What the Controller's own calls never touch.
restVars == <<urbVars, loopVars, pureVars, inflight>>
vars == <<controllers, receivers, remotes, panicked, last, kurbs, cancelq, urbs,
          hist, request, pc, devices, port_stats, issued, seen, arg, ret, inflight>>

(***************************************************************************)
(* Values.                                                                 *)
(***************************************************************************)
NoController == [dev |-> 0, open_ports |-> <<>>, work_recv_split |-> FALSE]

Alive(c) == controllers[c].dev # 0

\* Threads that share references to the Controllers and WorkReceivers.
NumThreads == 2
Threads == 1..NumThreads
NoFlight == [via |-> "none"]
NoFlights == [t \in Threads |-> NoFlight]

\* A Remote or WorkReceiver: the raw descriptor number it carries.  `owner' is
\* bookkeeping of the model: the Controller the handle was obtained from, 0
\* once that Controller has been dropped (a stale handle).
Handles == [dev : Fds, owner : 0..NumControllers]

HandleOf(c) == [dev |-> controllers[c].dev, owner |-> c]

Stale(h) == h.owner = 0

\* A thread is inside a call that borrows Controller c (&self): no call that
\* takes &mut self can start on c until it returns.
Borrowed(c) ==
    \E t \in Threads : inflight[t].via = "Controller" /\ inflight[t].h = HandleOf(c)

\* A thread is inside a call on a WorkReceiver with handle r: the receiver
\* cannot be moved or dropped until it returns.
ReceiverBorrowed(r) ==
    \E t \in Threads : inflight[t].via = "WorkReceiver" /\ inflight[t].h = r

OpenFds == {controllers[c].dev : c \in {s \in Slots : Alive(s)}}

SetMin(S) == CHOOSE x \in S : \A y \in S : x <= y

LowestFreeFd == SetMin(Fds \ OpenFds)

TotalReceivers == LET RECURSIVE Sum(_)
                      Sum(S) == IF S = {} THEN 0
                                ELSE LET h == CHOOSE x \in S : TRUE
                                     IN receivers[h] + Sum(S \ {h})
                  IN Sum(Handles)

NoCall == [op |-> "none", c |-> 0, p |-> 0, res |-> "none", ioc |-> "none",
           stale |-> FALSE]

Call(op, c, p, res, ioc, stale) ==
    [op |-> op, c |-> c, p |-> p, res |-> res, ioc |-> ioc, stale |-> stale]

\* The process holds no Controller.
InitController ==
    /\ controllers = [c \in Slots |-> NoController]
    /\ receivers = [h \in Handles |-> 0]
    /\ remotes = {}
    /\ panicked = FALSE
    /\ last = NoCall

\* URB handles the kernel side hands out; every handle names one request.
MaxUrbs == 2
UrbHandles == 1..MaxUrbs

NoUrb == [kind |-> "none"]
NoRequest == [ioctl |-> "none"]

\* History per URB handle: handles a fetch-data / a give-back was issued for,
\* handles an operation was issued for after their give-back, handles whose
\* cancel notice the client has received, handles an operation was issued
\* for after that notice, and the packet count of the envelope each handle
\* came in.
NoHist == [fetched |-> {}, given |-> {}, late |-> {}, canceled |-> {},
           after_cancel |-> {}, packets |-> [h \in UrbHandles |-> 0]]

\* No work has been fetched: the kernel side holds requests it has not sent,
\* the client holds no Urb.
InitUrbs ==
    /\ kurbs = [h \in UrbHandles |-> "unsent"]
    /\ cancelq = {}
    /\ urbs = [h \in UrbHandles |-> NoUrb]
    /\ hist = NoHist
    /\ request = NoRequest

\* No PortStat arm has run.
NoSeen == [prev |-> "none", next |-> "none"]

\* The process is not the example's main(): no driver loop runs.
InitLoopOff ==
    /\ pc = "off"
    /\ devices = <<>>
    /\ port_stats = <<>>
    /\ issued = {}
    /\ seen = NoSeen

(***************************************************************************)
(* The kernel side: what an ioctl on descriptor fd can return.  A closed   *)
(* descriptor gives EBADF; an open one is a usb-vhci device file, and the  *)
(* call succeeds or fails with one of the errors in `errs'.                *)
(***************************************************************************)
IoctlResults(fd, errs) == IF fd \in OpenFds THEN {"Ok"} \cup errs ELSE {"EBADF"}

PortStatErrs == {"EINVAL", "ENODEV"}

(***************************************************************************)
(* Controller::open and drop.                                              *)
(***************************************************************************)
BitVecFromElem(n, b) == [i \in 1..n |-> b]

Open(c, n) ==
    /\ ~panicked
    /\ ~Alive(c)
    /\ Fds \ OpenFds # {}
    /\ \E res \in {"Ok", "ENOENT"} :
          /\ controllers' =
                IF res = "Ok"
                THEN [controllers EXCEPT ![c] =
                        [dev |-> LowestFreeFd,
                         open_ports |-> BitVecFromElem(n, FALSE),
                         work_recv_split |-> FALSE]]
                ELSE controllers
          /\ last' = Call("open", c, n, res, res, FALSE)
    /\ UNCHANGED <<receivers, remotes, panicked, restVars>>

\* The Controller goes out of scope: its File closes the descriptor.  The
\* Remote and WorkReceiver values obtained from it stay alive.
MarkStale(h, c) == IF h.owner = c THEN [h EXCEPT !.owner = 0] ELSE h

DropController(c) ==
    /\ ~panicked
    /\ Alive(c)
    /\ controllers' = [controllers EXCEPT ![c] = NoController]
    /\ remotes' = {MarkStale(h, c) : h \in remotes}
    /\ receivers' = [h \in Handles |->
                       IF h.owner = c THEN 0
                       ELSE IF Stale(h)
                            THEN receivers[h] + receivers[[h EXCEPT !.owner = c]]
                            ELSE receivers[h]]
    /\ last' = Call("drop", c, 0, "Ok", "none", FALSE)
    /\ UNCHANGED <<panicked, restVars>>

(***************************************************************************)
(* The capability split.                                                   *)
(***************************************************************************)
remote(c) ==
    /\ ~panicked
    /\ Alive(c)
    /\ remotes' = remotes \cup {HandleOf(c)}
    /\ last' = Call("remote", c, 0, "Ok", "none", FALSE)
    /\ UNCHANGED <<controllers, receivers, panicked, restVars>>

\* work_receiver: None when already split, else sets the flag and hands out
\* a WorkReceiver with the Controller's descriptor number.
work_receiver(c) ==
    /\ ~panicked
    /\ Alive(c)
    /\ ~Borrowed(c)
    /\ IF controllers[c].work_recv_split
       THEN /\ last' = Call("work_receiver", c, 0, "None", "none", FALSE)
            /\ UNCHANGED <<controllers, receivers>>
       ELSE /\ TotalReceivers < MaxReceivers
            /\ controllers' = [controllers EXCEPT
                                 ![c].work_recv_split = TRUE]
            /\ receivers' = [receivers EXCEPT ![HandleOf(c)] = @ + 1]
            /\ last' = Call("work_receiver", c, 0, "Some", "none", FALSE)
    /\ UNCHANGED <<remotes, panicked, restVars>>

\* return_work_receiver(&mut self, _recv): takes any WorkReceiver by value and
\* clears the flag; _recv is not looked at.
return_work_receiver(c, r) ==
    /\ ~panicked
    /\ Alive(c)
    /\ ~Borrowed(c)
    /\ receivers[r] > 0
    /\ ~ReceiverBorrowed(r)
    /\ receivers' = [receivers EXCEPT ![r] = @ - 1]
    /\ controllers' = [controllers EXCEPT ![c].work_recv_split = FALSE]
    /\ last' = Call("return_work_receiver", c, 0, "Ok", "none", Stale(r))
    /\ UNCHANGED <<remotes, panicked, restVars>>

\* A WorkReceiver goes out of scope.  It has no Drop impl: nothing changes
\* in the Controller.
DropReceiver(r) ==
    /\ ~panicked
    /\ receivers[r] > 0
    /\ receivers' = [receivers EXCEPT ![r] = @ - 1]
    /\ last' = Call("drop_receiver", r.owner, 0, "Ok", "none", Stale(r))
    /\ UNCHANGED <<controllers, remotes, panicked, restVars>>

(***************************************************************************)
(* Ports.                                                                  *)
(***************************************************************************)
\* open_ports.iter().position(|in_use| !in_use): 0-based index of the first
\* free port, -1 standing for None.
FreeIndexes(bits) == {i \in 1..Len(bits) : ~bits[i]}

\* A search from the other end, in place of FirstFreePosition.
LastFreePosition(bits) ==
    IF FreeIndexes(bits) = {} THEN -1
    ELSE (CHOOSE x \in FreeIndexes(bits) : \A y \in FreeIndexes(bits) : y <= x) - 1

FirstFreePosition(bits) ==
    IF FreeIndexes(bits) = {} THEN -1 ELSE SetMin(FreeIndexes(bits)) - 1

\* port_connect: the port-stat ioctl, then open_ports.set(port - 1, true).
\* A connect that sets the bit before it looks at the ioctl's result, in
\* place of port_connect_eff.
port_connect_sets_first(ctl, port, ioc) ==
    [ctl EXCEPT !.open_ports[port] = TRUE]

port_connect_eff(ctl, port, ioc) ==
    IF ioc = "Ok"
    THEN [ctl EXCEPT !.open_ports[port] = TRUE]
    ELSE ctl

port_connect(c, port) ==
    /\ ~panicked
    /\ Alive(c)
    /\ port \in 1..Len(controllers[c].open_ports)
    /\ \E ioc \in IoctlResults(controllers[c].dev, PortStatErrs) :
          /\ controllers' = [controllers EXCEPT
                               ![c] = port_connect_eff(@, port, ioc)]
          /\ last' = Call("port_connect", c, port, ioc, ioc, FALSE)
    /\ UNCHANGED <<receivers, remotes, panicked, restVars>>

\* port_connect_any: position(..).unwrap() panics when no port is free;
\* otherwise port_connect on that port, and the port is returned.
port_connect_any(c) ==
    /\ ~panicked
    /\ Alive(c)
    /\ LET pos == FirstFreePosition(controllers[c].open_ports)
           port == pos + 1
       IN IF pos = -1
          THEN /\ panicked' = TRUE
               /\ last' = Call("port_connect_any", c, 0, "Panic", "none", FALSE)
               /\ UNCHANGED controllers
          ELSE /\ \E ioc \in IoctlResults(controllers[c].dev, PortStatErrs) :
                     /\ controllers' = [controllers EXCEPT
                                          ![c] = port_connect_eff(@, port, ioc)]
                     /\ last' = Call("port_connect_any", c, port, ioc, ioc, FALSE)
               /\ UNCHANGED panicked
    /\ UNCHANGED <<receivers, remotes, restVars>>

\* port_disconnect: the port-stat ioctl, then open_ports.set(port - 1, false).
\* A disconnect that forgets to clear the bit, in place of port_disconnect_eff.
port_disconnect_keeps_bit(ctl, port, ioc) == ctl

port_disconnect_eff(ctl, port, ioc) ==
    IF ioc = "Ok"
    THEN [ctl EXCEPT !.open_ports[port] = FALSE]
    ELSE ctl

port_disconnect(c, port) ==
    /\ ~panicked
    /\ Alive(c)
    /\ port \in 1..Len(controllers[c].open_ports)
    /\ \E ioc \in IoctlResults(controllers[c].dev, PortStatErrs) :
          /\ controllers' = [controllers EXCEPT
                               ![c] = port_disconnect_eff(@, port, ioc)]
          /\ last' = Call("port_disconnect", c, port, ioc, ioc, FALSE)
    /\ UNCHANGED <<receivers, remotes, panicked, restVars>>

\* A free_ports that counts the set bits (count_ones), in place of free_ports.
free_ports_counts_ones(c) ==
    Cardinality({i \in 1..Len(controllers[c].open_ports) :
                    controllers[c].open_ports[i]})

free_ports(c) == Cardinality(FreeIndexes(controllers[c].open_ports))

is_active(c) == \E i \in 1..Len(controllers[c].open_ports) :
                   controllers[c].open_ports[i]

\* Remote::port_disable, port_resumed, port_overcurrent and port_reset_done:
\* one port-stat ioctl on the descriptor number the Remote carries, its
\* error passed on.
RemotePortOps == {"port_disable", "port_resumed", "port_overcurrent",
                  "port_reset_done"}

\* A port_disable that also clears the port's bit in the bitmap of the
\* Controller the Remote came from, in place of Remote_port_op.
Remote_port_op_frees_port(r, op, port) ==
    /\ ~panicked
    /\ r \in remotes
    /\ \E ioc \in IoctlResults(r.dev, PortStatErrs) :
          /\ last' = Call(op, r.owner, port, ioc, ioc, Stale(r))
          /\ controllers' = IF op = "port_disable" /\ ioc = "Ok" /\ ~Stale(r)
                            THEN [controllers EXCEPT
                                    ![r.owner].open_ports[port] = FALSE]
                            ELSE controllers
    /\ UNCHANGED <<receivers, remotes, panicked, restVars>>

Remote_port_op(r, op, port) ==
    /\ ~panicked
    /\ r \in remotes
    /\ \E ioc \in IoctlResults(r.dev, PortStatErrs) :
          last' = Call(op, r.owner, port, ioc, ioc, Stale(r))
    /\ UNCHANGED <<ctlVars, restVars>>

(***************************************************************************)
(* The Work/URB domain model: decoding a work envelope (lib.rs).           *)
(***************************************************************************)
MAX_ISO_PACKETS == 64

USB_VHCI_WORK_TYPE_PORT_STAT == 0
USB_VHCI_WORK_TYPE_PROCESS_URB == 1
USB_VHCI_WORK_TYPE_CANCEL_URB == 2

USB_VHCI_URB_TYPE_ISO == 0
USB_VHCI_URB_TYPE_INT == 1
USB_VHCI_URB_TYPE_CONTROL == 2
USB_VHCI_URB_TYPE_BULK == 3

\* u8 arithmetic: x & 0x80 and !x.
And0x80(x) == IF x % 256 >= 128 THEN 128 ELSE 0
NotU8(x) == 255 - x

\* Endpoint::direction: match !(self.get() & 0x80) != 0 { true => Out, false => In }.
\* `!' binds tighter than `!=', and on a u8 it is the bitwise complement.
Endpoint_direction(epadr) ==
    IF NotU8(And0x80(epadr)) # 0 THEN "Out" ELSE "In"

Endpoint_is_out(epadr) == Endpoint_direction(epadr) = "Out"
\* An is_in that holds of every endpoint, in place of Endpoint_is_in.
Endpoint_is_in_always(epadr) == TRUE

Endpoint_is_in(epadr) == Endpoint_direction(epadr) = "In"

\* IsoPacket::default().
DefaultIsoPacket ==
    [offset |-> 0, packet_length |-> 0, packet_actual |-> 0, status |-> "Success"]

NoSetup == [bm_request_type |-> 0, b_request |-> 0, w_value |-> 0,
            w_index |-> 0, w_length |-> 0]

\* The transfer buffer of an Int, Ctrl or Bulk URB: reserve_exact(buffer_length),
\* then resize(actual_len, 0) with actual_len = buffer_length for an endpoint
\* that is_out() and 0 otherwise.  Returns the Vec's length.
\* A decode that forgets the resize, in place of DecodedVecLen.
DecodedVecLenNoResize(epadr, buffer_length) == 0

DecodedVecLen(epadr, buffer_length) ==
    IF Endpoint_is_out(epadr) THEN buffer_length ELSE 0

\* One arm of `match ioc_urb.typ': the Urb value built from the envelope.
\* buf_len is buffer.len(), buf_cap the capacity (for Iso, a boxed slice: its
\* length).
DecodeUrb(kind, handle, u) ==
    [kind |-> kind,
     status |-> "Pending",
     handle |-> handle,
     buf_len |-> IF kind = "Iso" THEN u.buffer_length
                 ELSE DecodedVecLen(u.endpoint, u.buffer_length),
     buf_cap |-> u.buffer_length,
     iso_packets |-> IF kind = "Iso"
                     THEN [i \in 1..u.packet_count |-> DefaultIsoPacket]
                     ELSE <<>>,
     error_count |-> 0,
     devadr |-> u.address,
     epadr |-> u.endpoint,
     setup |-> IF kind = "Ctrl" THEN u.setup_packet ELSE NoSetup]

\* From<IocPortStat> for PortStat: every bit pattern is a known flag set
\* (const _ = !0), Port::new(index).unwrap() panics outside 1..31.
DecodePortStat(ps) ==
    IF ps.index < 1 \/ ps.index >= 32
    THEN [tag |-> "Panic"]
    ELSE [tag |-> "PortStat", port |-> ps]

\* TryFrom<IocWork> for Work.  usize::try_from(..).unwrap() panics on a
\* negative length or packet count.
Work_try_from(w) ==
    IF w.typ = USB_VHCI_WORK_TYPE_PORT_STAT THEN DecodePortStat(w.port)
    ELSE IF w.typ = USB_VHCI_WORK_TYPE_PROCESS_URB
    THEN IF w.urb.typ \notin {USB_VHCI_URB_TYPE_ISO, USB_VHCI_URB_TYPE_INT,
                              USB_VHCI_URB_TYPE_CONTROL, USB_VHCI_URB_TYPE_BULK}
         THEN [tag |-> "Err", errno |-> "EBADMSG"]
         ELSE IF w.urb.buffer_length < 0
                 \/ (w.urb.typ = USB_VHCI_URB_TYPE_ISO /\ w.urb.packet_count < 0)
         THEN [tag |-> "Panic"]
         ELSE [tag |-> "ProcessUrb",
               urb |-> DecodeUrb(
                   CASE w.urb.typ = USB_VHCI_URB_TYPE_ISO -> "Iso"
                     [] w.urb.typ = USB_VHCI_URB_TYPE_INT -> "Int"
                     [] w.urb.typ = USB_VHCI_URB_TYPE_CONTROL -> "Ctrl"
                     [] w.urb.typ = USB_VHCI_URB_TYPE_BULK -> "Bulk",
                   w.handle, w.urb)]
    ELSE IF w.typ = USB_VHCI_WORK_TYPE_CANCEL_URB
    THEN [tag |-> "CancelUrb", handle |-> w.handle]
    ELSE [tag |-> "Err", errno |-> "EBADMSG"]

\* Urb accessors.
Urb_buffer_length(urb) == IF urb.kind = "Iso" THEN urb.buf_len ELSE urb.buf_cap
Urb_buffer_actual(urb) == urb.buf_len
\* A packet_count that is zero for every variant, in place of
\* Urb_packet_count.
Urb_packet_count_zero(urb) == 0

Urb_packet_count(urb) == IF urb.kind = "Iso" THEN Len(urb.iso_packets) ELSE 0
\* A requires_fetch_data that looks at the transfer buffer of every variant,
\* in place of Urb_requires_fetch_data.
Urb_requires_fetch_data_by_buffer(urb) == urb.buf_len # 0

Urb_requires_fetch_data(urb) ==
    IF urb.kind = "Iso" THEN Len(urb.iso_packets) # 0 ELSE urb.buf_len # 0
Urb_error_count(urb) == IF urb.kind = "Iso" THEN urb.error_count ELSE 0

(***************************************************************************)
(* Work envelopes the kernel side can write.                               *)
(***************************************************************************)
\* Largest transfer length and iso packet count of the envelopes drawn.
MaxLen == 2
MaxPackets == 2

NoPortStat == [status |-> {}, change |-> {}, index |-> 1, flags |-> {}]

NoIocUrb == [typ |-> 0, buffer_length |-> 0, packet_count |-> 0, endpoint |-> 0,
             address |-> 0, setup_packet |-> NoSetup]

\* Endpoint addresses drawn: endpoints 0 and 1, each OUT (bit 7 clear) and IN.
EndpointInputs == {0, 1, 128, 129}

IocUrbInputs ==
    {[NoIocUrb EXCEPT !.typ = t, !.buffer_length = n, !.packet_count = k,
                      !.endpoint = e] :
        t \in 0..4, n \in -1..MaxLen,
        k \in (0..MaxPackets) \cup {MAX_ISO_PACKETS + 1}, e \in EndpointInputs}

IocWorkInputs ==
    {[typ |-> USB_VHCI_WORK_TYPE_PROCESS_URB, handle |-> 1, urb |-> u,
      port |-> NoPortStat] : u \in IocUrbInputs}
    \cup {[typ |-> t, handle |-> 1, urb |-> NoIocUrb,
           port |-> [NoPortStat EXCEPT !.index = i]] :
             t \in {USB_VHCI_WORK_TYPE_PORT_STAT, USB_VHCI_WORK_TYPE_CANCEL_URB, 3},
             i \in {0, 1, 32}}

NoArg == [fn |-> "none"]
NotCalled == [tag |-> "pending"]

(***************************************************************************)
(* The pure functions, applied to inputs drawn in the initial state.       *)
(***************************************************************************)
InitDecode ==
    /\ InitController
    /\ InitUrbs
    /\ InitLoopOff
    /\ arg \in {[fn |-> "Work::try_from", w |-> w] : w \in IocWorkInputs}
    /\ ret = NotCalled
    /\ inflight = NoFlights

CallWorkTryFrom ==
    /\ arg.fn = "Work::try_from"
    /\ ret = NotCalled
    /\ ret' = Work_try_from(arg.w)
    /\ UNCHANGED <<ctlVars, last, arg, urbVars, loopVars, inflight>>

NextDecode == CallWorkTryFrom

SpecDecode == InitDecode /\ [][NextDecode]_vars

Decoded == arg.fn = "Work::try_from" /\ ret.tag # "pending" /\ ret.tag = "ProcessUrb"

\* Bit 7 of the endpoint address of the envelope is clear.
IsOutEnvelope == arg.w.urb.endpoint % 256 < 128

\* C10 as stated: every decoded OUT-direction URB, of any transfer type and
\* any requested length, has buffer length equal to the requested length and
\* reports that it requires a data-fetch.
C10_OutUrbAlwaysRequiresFetch ==
    (Decoded /\ IsOutEnvelope) =>
        /\ Urb_buffer_actual(ret.urb) = arg.w.urb.buffer_length
        /\ Urb_buffer_length(ret.urb) = arg.w.urb.buffer_length
        /\ Urb_requires_fetch_data(ret.urb)

\* C10 as amended: every decoded OUT-direction URB has buffer length equal to
\* the requested length; an Int, Ctrl or Bulk one requires a data-fetch
\* exactly when that length is not zero, an Iso one exactly when its packet
\* count is not zero.
C10_OutUrbLengthAndFetch ==
    (Decoded /\ IsOutEnvelope) =>
        /\ Urb_buffer_actual(ret.urb) = arg.w.urb.buffer_length
        /\ Urb_buffer_length(ret.urb) = arg.w.urb.buffer_length
        /\ Urb_requires_fetch_data(ret.urb) <=>
              IF arg.w.urb.typ = USB_VHCI_URB_TYPE_ISO
              THEN arg.w.urb.packet_count # 0
              ELSE arg.w.urb.buffer_length # 0

\* A Bulk OUT URB of two bytes has been decoded and requires a data-fetch.
C10_Witness ==
    /\ Decoded
    /\ IsOutEnvelope
    /\ ret.urb.kind = "Bulk"
    /\ arg.w.urb.buffer_length = 2
    /\ Urb_buffer_actual(ret.urb) = 2
    /\ Urb_requires_fetch_data(ret.urb)

\* C11: every decoded IN-direction URB (bit 7 of the endpoint address set),
\* of any transfer type, starts with buffer length zero and reserved
\* capacity equal to the requested buffer length.
C11_InUrbStartsEmpty ==
    (Decoded /\ ~IsOutEnvelope) =>
        /\ Urb_buffer_actual(ret.urb) = 0
        /\ Urb_buffer_length(ret.urb) = arg.w.urb.buffer_length

WorkTypes ==
    {USB_VHCI_WORK_TYPE_PORT_STAT, USB_VHCI_WORK_TYPE_PROCESS_URB,
     USB_VHCI_WORK_TYPE_CANCEL_URB}

UrbTypes ==
    {USB_VHCI_URB_TYPE_ISO, USB_VHCI_URB_TYPE_INT, USB_VHCI_URB_TYPE_CONTROL,
     USB_VHCI_URB_TYPE_BULK}

\* One arm of `match self.typ' in IocWork::into_inner.
IntoInnerArm(typ, w) ==
    CASE typ = USB_VHCI_WORK_TYPE_PORT_STAT -> [tag |-> "PortStat", port |-> w.port]
      [] typ = USB_VHCI_WORK_TYPE_PROCESS_URB ->
           [tag |-> "ProcessUrb", ioc_urb |-> w.urb, handle |-> w.handle]
      [] typ = USB_VHCI_WORK_TYPE_CANCEL_URB -> [tag |-> "CancelUrb", handle |-> w.handle]

\* IocWork::into_inner: the arm of the tag.  A tag that is no WorkType
\* variant is an invalid enum value: the match has no arm for it and the
\* build may take any arm or stop.
IocWork_into_inner(w) ==
    IF w.typ \in WorkTypes
    THEN {IntoInnerArm(w.typ, w)}
    ELSE {IntoInnerArm(t, w) : t \in WorkTypes} \cup {[tag |-> "Abort"]}

NumHandleInputs == 2

\* Envelopes with several handle values.
EnvelopeInputs ==
    {[w EXCEPT !.handle = h] : w \in IocWorkInputs, h \in 1..NumHandleInputs}

InitEnvelope ==
    /\ InitController
    /\ InitUrbs
    /\ InitLoopOff
    /\ arg \in {[fn |-> f, w |-> w] :
                  f \in {"Work::try_from", "IocWork::into_inner"},
                  w \in EnvelopeInputs}
    /\ ret = NotCalled
    /\ inflight = NoFlights

CallIocWorkIntoInner ==
    /\ arg.fn = "IocWork::into_inner"
    /\ ret = NotCalled
    /\ ret' \in IocWork_into_inner(arg.w)
    /\ UNCHANGED <<ctlVars, last, arg, urbVars, loopVars, inflight>>

NextEnvelope ==
    \/ CallWorkTryFrom
    \/ CallIocWorkIntoInner

SpecEnvelope == InitEnvelope /\ [][NextEnvelope]_vars

\* The handle a decoded ProcessUrb or CancelUrb carries.
WorkHandle(work) ==
    IF work.tag = "ProcessUrb" /\ arg.fn = "Work::try_from"
    THEN work.urb.handle
    ELSE work.handle

\* The Work variant a defined work-type tag names.
ArmOf(typ) ==
    CASE typ = USB_VHCI_WORK_TYPE_PORT_STAT -> "PortStat"
      [] typ = USB_VHCI_WORK_TYPE_PROCESS_URB -> "ProcessUrb"
      [] typ = USB_VHCI_WORK_TYPE_CANCEL_URB -> "CancelUrb"

\* C20: decoding a work envelope gives the variant its type tag names
\* (port-stat, process-urb, cancel-urb), carrying the envelope's handle; an
\* envelope whose work-type tag or URB-type tag is not a defined value gives
\* an explicit error or an abort, never a Work value.
C20_EnvelopeDecoding ==
    ret # NotCalled =>
        IF /\ arg.w.typ \in WorkTypes
           /\ (arg.w.typ = USB_VHCI_WORK_TYPE_PROCESS_URB => arg.w.urb.typ \in UrbTypes)
        THEN /\ ret.tag \in {ArmOf(arg.w.typ), "Panic"}
             /\ ret.tag \in {"ProcessUrb", "CancelUrb"} =>
                   WorkHandle(ret) = arg.w.handle
        ELSE ret.tag \in {"Err", "Panic", "Abort"}

(***************************************************************************)
(* Status codes (lib.rs).  The errno values are those of Linux.            *)
(***************************************************************************)
ENOENT == 2
EXDEV == 18
ENODEV == 19
EINVAL == 22
EPIPE == 32
ETIME == 62
ENOSR == 63
ECOMM == 70
EPROTO == 71
EOVERFLOW == 75
EILSEQ == 84
ECONNRESET == 104
ESHUTDOWN == 108
ETIMEDOUT == 110
EINPROGRESS == 115
EREMOTEIO == 121

IsoStatus_to_errno_raw(status, is_iso) ==
    CASE status = "Success" -> 0
      [] status = "Pending" -> 0 - EINPROGRESS
      [] status = "ShortPacket" -> 0 - EREMOTEIO
      [] status = "Error" -> IF is_iso THEN 0 - EXDEV ELSE 0 - EPROTO
      [] status = "Canceled" -> 0 - ECONNRESET
      [] status = "TimedOut" -> 0 - ETIMEDOUT
      [] status = "DeviceDisabled" -> 0 - ESHUTDOWN
      [] status = "DeviceDisconnected" -> 0 - ENODEV
      [] status = "BitStuff" -> 0 - EPROTO
      [] status = "Crc" -> 0 - EILSEQ
      [] status = "NoResponse" -> 0 - ETIME
      [] status = "Babble" -> 0 - EOVERFLOW
      [] status = "Stall" -> 0 - EPIPE
      [] status = "BufferOverrun" -> 0 - ECOMM
      [] status = "BufferUnderrun" -> 0 - ENOSR
      [] status = "AllIsoPacketsFailed" -> IF is_iso THEN 0 - EINVAL ELSE 0 - EPROTO

\* A translation of the URB's status that never takes the isochronous
\* context, in place of Urb_status_to_errno_raw.
Urb_status_to_errno_raw_non_iso(urb) == IsoStatus_to_errno_raw(urb.status, FALSE)

Urb_status_to_errno_raw(urb) == IsoStatus_to_errno_raw(urb.status, urb.kind = "Iso")

\* `-errno' on an i32.
NegI32(x) == 0 - x

IsoStatus_from_errno_raw(errno, is_iso) ==
    LET e == NegI32(errno)
    IN CASE e = 0 -> "Success"
         [] e = EINPROGRESS -> "Pending"
         [] e = EREMOTEIO -> "ShortPacket"
         [] e \in {ENOENT, ECONNRESET} -> "Canceled"
         [] e = ETIMEDOUT -> "TimedOut"
         [] e = ESHUTDOWN -> "DeviceDisabled"
         [] e = ENODEV -> "DeviceDisconnected"
         [] e = EPROTO -> "BitStuff"
         [] e = EILSEQ -> "Crc"
         [] e = ETIME -> "NoResponse"
         [] e = EOVERFLOW -> "Babble"
         [] e = EPIPE -> "Stall"
         [] e = ECOMM -> "BufferOverrun"
         [] e = ENOSR -> "BufferUnderrun"
         [] e = EINVAL -> IF is_iso THEN "AllIsoPacketsFailed" ELSE "Error"
         [] OTHER -> "Error"

(***************************************************************************)
(* The status translations applied to every status, every code of the      *)
(* table and a few codes outside it, in both contexts.                     *)
(***************************************************************************)
IsoStatuses ==
    {"Success", "Pending", "ShortPacket", "Error", "Canceled", "TimedOut",
     "DeviceDisabled", "DeviceDisconnected", "BitStuff", "Crc", "NoResponse",
     "Babble", "Stall", "BufferOverrun", "BufferUnderrun", "AllIsoPacketsFailed"}

\* The codes from_errno_raw names in its arms.
NamedErrnos ==
    {0 - e : e \in {0, EINPROGRESS, EREMOTEIO, ENOENT, ECONNRESET, ETIMEDOUT,
                    ESHUTDOWN, ENODEV, EPROTO, EILSEQ, ETIME, EOVERFLOW, EPIPE,
                    ECOMM, ENOSR, EINVAL}}

\* The codes to_errno_raw can produce.
ProducedErrnos ==
    {IsoStatus_to_errno_raw(st, iso) : st \in IsoStatuses, iso \in BOOLEAN}

ErrnoTable == NamedErrnos \cup ProducedErrnos

ErrnoInputs == ErrnoTable \cup {0 - 1, ENOENT, EINVAL}

UrbKinds == {"Iso", "Int", "Ctrl", "Bulk"}

StatusInputs ==
    {[fn |-> "IsoStatus::to_errno_raw", status |-> st, is_iso |-> iso] :
        st \in IsoStatuses, iso \in BOOLEAN}
    \cup {[fn |-> "IsoStatus::from_errno_raw", errno |-> e, is_iso |-> iso] :
            e \in ErrnoInputs, iso \in BOOLEAN}
    \cup {[fn |-> "Urb::status_to_errno_raw", urb |-> [kind |-> k, status |-> st]] :
            k \in UrbKinds, st \in IsoStatuses}

InitStatus ==
    /\ InitController
    /\ InitUrbs
    /\ InitLoopOff
    /\ arg \in StatusInputs
    /\ ret = NotCalled
    /\ inflight = NoFlights

CallToErrnoRaw ==
    /\ arg.fn = "IsoStatus::to_errno_raw"
    /\ ret = NotCalled
    /\ ret' = [tag |-> "errno",
               errno |-> IsoStatus_to_errno_raw(arg.status, arg.is_iso)]
    /\ UNCHANGED <<ctlVars, last, arg, urbVars, loopVars, inflight>>

CallFromErrnoRaw ==
    /\ arg.fn = "IsoStatus::from_errno_raw"
    /\ ret = NotCalled
    /\ ret' = [tag |-> "status",
               status |-> IsoStatus_from_errno_raw(arg.errno, arg.is_iso)]
    /\ UNCHANGED <<ctlVars, last, arg, urbVars, loopVars, inflight>>

\* to_errno_raw applied to what from_errno_raw returned, in the same context.
CallToErrnoRawBack ==
    /\ arg.fn = "IsoStatus::from_errno_raw"
    /\ ret.tag = "status"
    /\ ret' = [tag |-> "roundtrip",
               status |-> ret.status,
               errno |-> IsoStatus_to_errno_raw(ret.status, arg.is_iso)]
    /\ UNCHANGED <<ctlVars, last, arg, urbVars, loopVars, inflight>>

\* from_errno_raw applied to what to_errno_raw returned, in the same context.
CallFromErrnoRawBack ==
    /\ arg.fn = "IsoStatus::to_errno_raw"
    /\ ret.tag = "errno"
    /\ ret' = [tag |-> "statusback",
               errno |-> ret.errno,
               status |-> IsoStatus_from_errno_raw(ret.errno, arg.is_iso)]
    /\ UNCHANGED <<ctlVars, last, arg, urbVars, loopVars, inflight>>

CallUrbStatusToErrnoRaw ==
    /\ arg.fn = "Urb::status_to_errno_raw"
    /\ ret = NotCalled
    /\ ret' = [tag |-> "errno", errno |-> Urb_status_to_errno_raw(arg.urb)]
    /\ UNCHANGED <<ctlVars, last, arg, urbVars, loopVars, inflight>>

NextStatus ==
    \/ CallToErrnoRaw
    \/ CallFromErrnoRaw
    \/ CallToErrnoRawBack
    \/ CallFromErrnoRawBack
    \/ CallUrbStatusToErrnoRaw

SpecStatus == InitStatus /\ [][NextStatus]_vars

\* C16: to_errno_raw maps Error to -EXDEV on an isochronous transfer and to
\* -EPROTO otherwise, AllIsoPacketsFailed to -EINVAL on an isochronous
\* transfer and to -EPROTO otherwise, and each of the other 14 statuses to
\* the same code in both contexts; a URB's own status is translated in the
\* isochronous context exactly when the URB is of the Iso variant.
C16_ContextSensitiveStatuses ==
    /\ (arg.fn = "IsoStatus::to_errno_raw" /\ ret.tag = "errno") =>
          CASE arg.status = "Error" ->
                 ret.errno = IF arg.is_iso THEN 0 - EXDEV ELSE 0 - EPROTO
            [] arg.status = "AllIsoPacketsFailed" ->
                 ret.errno = IF arg.is_iso THEN 0 - EINVAL ELSE 0 - EPROTO
            [] OTHER ->
                 ret.errno = IsoStatus_to_errno_raw(arg.status, ~arg.is_iso)
    /\ (arg.fn = "Urb::status_to_errno_raw" /\ ret.tag = "errno") =>
          ret.errno = IsoStatus_to_errno_raw(arg.urb.status, arg.urb.kind = "Iso")

\* An Iso URB whose status is Error has been translated to -EXDEV.
C16_Witness ==
    /\ arg.fn = "Urb::status_to_errno_raw"
    /\ arg.urb.kind = "Iso"
    /\ arg.urb.status = "Error"
    /\ ret.tag = "errno"
    /\ ret.errno = 0 - EXDEV

\* C17: for every code e of the status table (the codes from_errno_raw names
\* and the codes to_errno_raw produces) and in both contexts,
\* to_errno_raw(from_errno_raw(e, iso), iso) = e.
C17_ErrnoRoundTrip ==
    (ret.tag = "roundtrip" /\ arg.errno \in ErrnoTable) => ret.errno = arg.errno

\* C39: for each of the 16 statuses s and in both contexts,
\* from_errno_raw(to_errno_raw(s, iso), iso) = s.
C39_StatusRoundTrip ==
    ret.tag = "statusback" => ret.status = arg.status

(***************************************************************************)
(* The kernel side of the URBs.  A request is "unsent" until a fetch-work  *)
(* delivers it, "delivered" until it is given back ("done") or its         *)
(* originator cancels it ("canceled", with a cancel notice queued for a    *)
(* later fetch-work).                                                      *)
(***************************************************************************)
KernelCancel(h) ==
    /\ ~panicked
    /\ kurbs[h] = "delivered"
    /\ kurbs' = [kurbs EXCEPT ![h] = "canceled"]
    /\ cancelq' = cancelq \cup {h}
    /\ last' = Call("kernel_cancel", 0, h, "Ok", "none", FALSE)
    /\ UNCHANGED <<ctlVars, urbs, hist, request, loopVars, pureVars, inflight>>

\* Errors of the fetch-work ioctl on an open descriptor; ETIMEDOUT is the
\* wait budget elapsing.
FetchWorkErrs == {"ETIMEDOUT", "EINTR", "ENODEV"}

NoWork == [typ |-> USB_VHCI_WORK_TYPE_PORT_STAT, handle |-> 0, urb |-> NoIocUrb,
           port |-> NoPortStat]

\* The Controller that holds descriptor fd now.
FdActive(fd) == \E c \in Slots : Alive(c) /\ controllers[c].dev = fd /\ is_active(c)

Unsent == {h \in UrbHandles : kurbs[h] = "unsent"}

\* What one fetch-work ioctl on descriptor fd can return: an error, or an
\* envelope written by the kernel side: a port snapshot out of `snaps', the
\* next request (one of the descriptors in `menu') when a device is
\* connected, or a queued cancel notice.
KernelWork(fd, menu, snaps) ==
    IF fd \notin OpenFds
    THEN {[kind |-> "Err", errno |-> "EBADF", w |-> NoWork]}
    ELSE {[kind |-> "Err", errno |-> e, w |-> NoWork] : e \in FetchWorkErrs}
         \cup {[kind |-> "Work", errno |-> "Ok",
                w |-> [NoWork EXCEPT !.port = ps]] : ps \in snaps}
         \cup (IF FdActive(fd) /\ Unsent # {}
               THEN {[kind |-> "Work", errno |-> "Ok",
                      w |-> [NoWork EXCEPT !.typ = USB_VHCI_WORK_TYPE_PROCESS_URB,
                                           !.handle = SetMin(Unsent),
                                           !.urb = u]] : u \in menu}
               ELSE {})
         \cup {[kind |-> "Work", errno |-> "Ok",
                w |-> [NoWork EXCEPT !.typ = USB_VHCI_WORK_TYPE_CANCEL_URB,
                                     !.handle = h]] : h \in cancelq}

\* The kernel side after it has written the answer.
KernelSent(ans) ==
    /\ kurbs' = IF ans.kind = "Work" /\ ans.w.typ = USB_VHCI_WORK_TYPE_PROCESS_URB
                THEN [kurbs EXCEPT ![ans.w.handle] = "delivered"]
                ELSE kurbs
    /\ cancelq' = IF ans.kind = "Work" /\ ans.w.typ = USB_VHCI_WORK_TYPE_CANCEL_URB
                  THEN cancelq \ {ans.w.handle}
                  ELSE cancelq

\* Results of the fetch-data and give-back ioctls for handle h through the
\* descriptor number of handle r.
UrbIoctlErrs == {"EINVAL", "ENODEV"}

UrbIoctlResults(r, h) ==
    IF r.dev \notin OpenFds THEN {"EBADF"}
    ELSE IF Stale(r) THEN {"ENOENT"}
    ELSE IF kurbs[h] = "delivered" THEN {"Ok"} \cup UrbIoctlErrs
    ELSE IF kurbs[h] = "canceled" THEN {"ECANCELED"}
    ELSE {"ENOENT"}

\* Offsets and lengths the kernel side writes into the iso packet array.
KernelIsoPacketData(i) == [offset |-> i - 1, packet_length |-> 1]

(***************************************************************************)
(* Fetching work, fetching data and giving back through the library.       *)
(***************************************************************************)
\* Request descriptors the kernel side sends to a client of the library.
SetAddressSetup == [NoSetup EXCEPT !.b_request = 5, !.w_value = 2]

UrbMenu ==
    {[NoIocUrb EXCEPT !.typ = USB_VHCI_URB_TYPE_BULK, !.endpoint = 1,
                      !.buffer_length = MaxLen],
     [NoIocUrb EXCEPT !.typ = USB_VHCI_URB_TYPE_INT, !.endpoint = 129,
                      !.buffer_length = MaxLen],
     [NoIocUrb EXCEPT !.typ = USB_VHCI_URB_TYPE_ISO, !.endpoint = 1,
                      !.buffer_length = MaxLen, !.packet_count = MaxPackets],
     [NoIocUrb EXCEPT !.typ = USB_VHCI_URB_TYPE_CONTROL,
                      !.setup_packet = SetAddressSetup]}

PortStatMenu ==
    {[NoPortStat EXCEPT !.status = {"POWER"}],
     [NoPortStat EXCEPT !.status = {"POWER", "CONNECTION"},
                        !.change = {"CONNECTION"}]}

NoteOp(h, op) ==
    [hist EXCEPT !.fetched = IF op = "fetch_data" THEN @ \cup {h} ELSE @,
                 !.given = IF op = "giveback" THEN @ \cup {h} ELSE @,
                 !.late = IF h \in hist.given THEN @ \cup {h} ELSE @,
                 !.after_cancel = IF h \in hist.canceled THEN @ \cup {h} ELSE @]

NoteWork(work) ==
    IF work.tag = "CancelUrb"
    THEN [hist EXCEPT !.canceled = @ \cup {work.handle}]
    ELSE hist

\* The packet count the kernel side reported for the request in envelope w.
NotePackets(hs, w) ==
    IF w.typ = USB_VHCI_WORK_TYPE_PROCESS_URB
    THEN [hs EXCEPT !.packets[w.handle] = w.urb.packet_count]
    ELSE hs

\* WorkReceiver::fetch_work_timeout on the descriptor number of handle r: the
\* ioctl, its error as an io::Error, else the envelope decoded.
FetchWork(r, op) ==
    \E ans \in KernelWork(r.dev, UrbMenu, PortStatMenu) :
        LET work == IF ans.kind = "Err"
                    THEN [tag |-> "Err", errno |-> ans.errno]
                    ELSE Work_try_from(ans.w)
        IN /\ KernelSent(ans)
           /\ panicked' = (work.tag = "Panic")
           /\ urbs' = IF work.tag = "ProcessUrb"
                      THEN [urbs EXCEPT ![work.urb.handle] = work.urb]
                      ELSE urbs
           /\ hist' = NotePackets(NoteWork(work), ans.w)
           /\ last' = Call(op, r.owner,
                           CASE work.tag = "ProcessUrb" -> work.urb.handle
                             [] work.tag = "CancelUrb" -> work.handle
                             [] work.tag = "PortStat" -> work.port.index
                             [] OTHER -> 0,
                           IF work.tag = "Err" THEN work.errno ELSE work.tag,
                           ans.errno, Stale(r))

WorkReceiver_fetch_work_timeout(r) ==
    /\ ~panicked
    /\ receivers[r] > 0
    /\ FetchWork(r, "WorkReceiver::fetch_work")
    /\ UNCHANGED <<controllers, receivers, remotes, request, loopVars, pureVars, inflight>>

\* Controller::fetch_work_timeout: AlreadyExists while the work receiver is
\* split off, else the same call on the Controller's own descriptor.
Controller_fetch_work_timeout(c) ==
    /\ ~panicked
    /\ Alive(c)
    /\ IF controllers[c].work_recv_split
       THEN /\ last' = Call("fetch_work", c, 0, "AlreadyExists", "none", FALSE)
            /\ UNCHANGED <<kurbs, cancelq, urbs, hist, panicked>>
       ELSE FetchWork(HandleOf(c), "fetch_work")
    /\ UNCHANGED <<controllers, receivers, remotes, request, loopVars, pureVars, inflight>>

\* A thread enters Controller::fetch_work_timeout(&self): AlreadyExists at
\* once while the work receiver is split off, else it blocks in the
\* fetch-work ioctl on the Controller's descriptor.
Controller_fetch_work_enter(t, c) ==
    /\ ~panicked
    /\ Alive(c)
    /\ inflight[t] = NoFlight
    /\ IF controllers[c].work_recv_split
       THEN /\ last' = Call("fetch_work", c, 0, "AlreadyExists", "none", FALSE)
            /\ UNCHANGED inflight
       ELSE /\ inflight' = [inflight EXCEPT
                              ![t] = [via |-> "Controller", h |-> HandleOf(c)]]
            /\ last' = Call("fetch_work_enter", c, t, "Blocked", "none", FALSE)
    /\ UNCHANGED <<ctlVars, urbVars, loopVars, pureVars>>

\* A thread enters WorkReceiver::fetch_work_timeout(&self) and blocks in the
\* fetch-work ioctl on the descriptor number the receiver carries.
WorkReceiver_fetch_work_enter(t, r) ==
    /\ ~panicked
    /\ receivers[r] > 0
    /\ inflight[t] = NoFlight
    /\ inflight' = [inflight EXCEPT ![t] = [via |-> "WorkReceiver", h |-> r]]
    /\ last' = Call("WorkReceiver::fetch_work_enter", r.owner, t, "Blocked", "none",
                    Stale(r))
    /\ UNCHANGED <<ctlVars, urbVars, loopVars, pureVars>>

\* The fetch-work ioctl a thread is blocked in returns.
fetch_work_return(t) ==
    /\ ~panicked
    /\ inflight[t] # NoFlight
    /\ FetchWork(inflight[t].h,
                 IF inflight[t].via = "Controller"
                 THEN "fetch_work" ELSE "WorkReceiver::fetch_work")
    /\ inflight' = [inflight EXCEPT ![t] = NoFlight]
    /\ UNCHANGED <<controllers, receivers, remotes, request, loopVars, pureVars>>

\* Remote values a call can go through: the ones alive, and the one that
\* Controller::fetch_data and Controller::giveback make on the spot.
RemoteHandles == remotes \cup {HandleOf(c) : c \in {s \in Slots : Alive(s)}}

\* A fetch_data that ends with one entry fewer than the Urb had, in place of
\* fetch_data_eff.
fetch_data_shrinks(urb, ioc) ==
    IF ioc = "Ok" /\ urb.kind = "Iso"
    THEN [urb EXCEPT !.iso_packets =
            [i \in 1..(Len(urb.iso_packets) - 1) |->
                [offset |-> KernelIsoPacketData(i).offset,
                 packet_length |-> KernelIsoPacketData(i).packet_length,
                 packet_actual |-> 0,
                 status |-> "Pending"]]]
    ELSE urb

\* A fetch_data that copies offsets and lengths and leaves the other fields
\* of each packet as they were, in place of fetch_data_eff.
fetch_data_keeps_status(urb, ioc) ==
    IF ioc = "Ok" /\ urb.kind = "Iso"
    THEN [urb EXCEPT !.iso_packets =
            [i \in 1..Len(urb.iso_packets) |->
                [urb.iso_packets[i] EXCEPT
                    !.offset = KernelIsoPacketData(i).offset,
                    !.packet_length = KernelIsoPacketData(i).packet_length]]]
    ELSE urb

\* `as i32' of a u32.
AsI32(x) == IF x > 2147483647 THEN ((x - 2147483647) - 2147483647) - 2 ELSE x

\* Remote::fetch_data: on success the iso packets take the offsets and
\* lengths the kernel side wrote, with nothing transferred and Pending.
fetch_data_eff(urb, ioc) ==
    IF ioc = "Ok" /\ urb.kind = "Iso"
    THEN [urb EXCEPT !.iso_packets =
            [i \in 1..Len(urb.iso_packets) |->
                [offset |-> KernelIsoPacketData(i).offset,
                 packet_length |-> AsI32(KernelIsoPacketData(i).packet_length),
                 packet_actual |-> 0,
                 status |-> "Pending"]]]
    ELSE urb

IocUrbData(urb) ==
    [ioctl |-> "fetchdata",
     handle |-> urb.handle,
     buffer_length |-> Urb_buffer_length(urb),
     packet_count |-> Urb_packet_count(urb),
     iso_packets |-> IF Urb_packet_count(urb) > 0 THEN "ptr" ELSE "null"]

Remote_fetch_data(r, h) ==
    /\ ~panicked
    /\ urbs[h].kind # "none"
    /\ IF Urb_packet_count(urbs[h]) > MAX_ISO_PACKETS
       THEN /\ panicked' = TRUE
            /\ last' = Call("fetch_data", r.owner, h, "Panic", "none", Stale(r))
            /\ UNCHANGED <<urbs, hist, request>>
       ELSE /\ \E ioc \in UrbIoctlResults(r, h) :
                  /\ urbs' = [urbs EXCEPT ![h] = fetch_data_eff(@, ioc)]
                  /\ last' = Call("fetch_data", r.owner, h, ioc, ioc, Stale(r))
            /\ request' = IocUrbData(urbs[h])
            /\ hist' = NoteOp(h, "fetch_data")
            /\ UNCHANGED panicked
    /\ UNCHANGED <<controllers, receivers, remotes, kurbs, cancelq, loopVars,
                   pureVars, inflight>>

\* Remote::giveback.  The request structure:
IocGiveback(urb) ==
    [ioctl |-> "giveback",
     handle |-> urb.handle,
     status |-> Urb_status_to_errno_raw(urb),
     buffer_actual |-> Urb_buffer_actual(urb),
     buffer |-> IF Endpoint_is_in(urb.epadr) /\ Urb_buffer_actual(urb) > 0
                THEN "ptr" ELSE "null",
     iso_packets |-> IF urb.kind = "Iso"
                     THEN [i \in 1..Len(urb.iso_packets) |->
                             [packet_actual |-> urb.iso_packets[i].packet_actual,
                              status |-> IsoStatus_to_errno_raw(
                                             urb.iso_packets[i].status, TRUE)]]
                     ELSE <<>>,
     packet_count |-> IF urb.kind = "Iso" THEN Urb_packet_count(urb) ELSE 0,
     error_count |-> IF urb.kind = "Iso" THEN Urb_error_count(urb) ELSE 0]

\* A give-back that passes every ioctl failure on, in place of giveback_result.
giveback_result_strict(ioc) == ioc

\* Err(ECANCELED) | Ok(_) => Ok(()), Err(nix) => Err(io::Error::from(nix)).
giveback_result(ioc) == IF ioc \in {"Ok", "ECANCELED"} THEN "Ok" ELSE ioc

\* A give-back that takes the Urb by reference, in place of giveback_moves.
giveback_borrows(urb) == urb

\* giveback(&self, urb: Urb) takes the Urb by value: the caller has it no more.
giveback_moves(urb) == NoUrb

Remote_giveback(r, h) ==
    /\ ~panicked
    /\ urbs[h].kind # "none"
    /\ IF Urb_packet_count(urbs[h]) > MAX_ISO_PACKETS
       THEN /\ panicked' = TRUE
            /\ last' = Call("giveback", r.owner, h, "Panic", "none", Stale(r))
            /\ UNCHANGED <<urbs, kurbs, hist, request>>
       ELSE /\ \E ioc \in UrbIoctlResults(r, h) :
                  /\ kurbs' = IF ioc \in {"Ok", "ECANCELED"}
                              THEN [kurbs EXCEPT ![h] = "done"]
                              ELSE kurbs
                  /\ last' = Call("giveback", r.owner, h, giveback_result(ioc), ioc,
                                  Stale(r))
            /\ urbs' = [urbs EXCEPT ![h] = giveback_moves(@)]
            /\ request' = IocGiveback(urbs[h])
            /\ hist' = NoteOp(h, "giveback")
            /\ UNCHANGED panicked
    /\ UNCHANGED <<controllers, receivers, remotes, cancelq, loopVars, pureVars, inflight>>

\* The client lets go of an Urb without giving it back.
DropUrb(h) ==
    /\ ~panicked
    /\ urbs[h].kind # "none"
    /\ urbs' = [urbs EXCEPT ![h] = NoUrb]
    /\ last' = Call("drop_urb", 0, h, "Ok", "none", FALSE)
    /\ UNCHANGED <<ctlVars, kurbs, cancelq, hist, request, loopVars, pureVars, inflight>>

(***************************************************************************)
(* A decoded URB handed on: Work::try_from on an envelope, then fetch_data *)
(* and giveback of a Remote on the Urb it gave, with the request structure *)
(* the give-back passes to the ioctl.                                      *)
(***************************************************************************)
CallRemoteFetchData ==
    /\ ret.tag = "ProcessUrb"
    /\ IF Urb_packet_count(ret.urb) > MAX_ISO_PACKETS
       THEN ret' = [tag |-> "fetch_data_panic", urb |-> ret.urb]
       ELSE \E ioc \in {"Ok"} \cup UrbIoctlErrs :
               ret' = [tag |-> "ProcessUrb", urb |-> fetch_data_eff(ret.urb, ioc)]
    /\ UNCHANGED <<ctlVars, last, arg, urbVars, loopVars, inflight>>

CallRemoteGiveback ==
    /\ ret.tag = "ProcessUrb"
    /\ IF Urb_packet_count(ret.urb) > MAX_ISO_PACKETS
       THEN ret' = [tag |-> "giveback_panic", urb |-> ret.urb]
       ELSE \E ioc \in {"Ok", "ECANCELED"} \cup UrbIoctlErrs :
               ret' = [tag |-> "giveback", urb |-> ret.urb,
                       request |-> IocGiveback(ret.urb),
                       res |-> giveback_result(ioc)]
    /\ UNCHANGED <<ctlVars, last, arg, urbVars, loopVars, inflight>>

NextHandOver ==
    \/ CallWorkTryFrom
    \/ CallRemoteFetchData
    \/ CallRemoteGiveback

SpecHandOver == InitDecode /\ [][NextHandOver]_vars

\* giveback has built its request for the Urb ret.urb.
GivenBack == ret.tag = "giveback"

\* Bit 7 of an endpoint address is set: the IN direction.
BitSeven(epadr) == epadr % 256 >= 128

\* C31: the give-back request points to the transfer buffer only if the
\* URB's endpoint is IN-direction and its actual length is not zero; for an
\* OUT-direction URB or a zero actual length the pointer is null; and
\* buffer_actual carries the buffer's current length.
C31_BufferOnlyForInWithData ==
    GivenBack =>
        /\ ret.request.buffer_actual = ret.urb.buf_len
        /\ ret.request.buffer = "ptr" =>
              BitSeven(ret.urb.epadr) /\ ret.urb.buf_len # 0
        /\ (~BitSeven(ret.urb.epadr) \/ ret.urb.buf_len = 0) =>
              ret.request.buffer = "null"

\* A Bulk OUT URB with two bytes in its buffer has been given back: the
\* request carries the length 2 and a null pointer.
C31_Witness ==
    /\ GivenBack
    /\ ret.urb.kind = "Bulk"
    /\ ~BitSeven(ret.urb.epadr)
    /\ ret.urb.buf_len = 2
    /\ ret.request.buffer_actual = 2
    /\ ret.request.buffer = "null"

\* C32: the give-back request of an Iso URB carries the number of its iso
\* packets as packet_count, for each packet in order its actual length and
\* its status in the isochronous mapping, and the URB's error count; that of
\* an Int, Ctrl or Bulk URB carries packet_count 0, error_count 0 and no
\* packet array.
C32_IsoPacketsInGiveback ==
    GivenBack =>
        IF ret.urb.kind = "Iso"
        THEN /\ ret.request.packet_count = Len(ret.urb.iso_packets)
             /\ Len(ret.request.iso_packets) = Len(ret.urb.iso_packets)
             /\ \A i \in 1..Len(ret.urb.iso_packets) :
                   /\ ret.request.iso_packets[i].packet_actual
                         = ret.urb.iso_packets[i].packet_actual
                   /\ ret.request.iso_packets[i].status
                         = IsoStatus_to_errno_raw(ret.urb.iso_packets[i].status, TRUE)
             /\ ret.request.error_count = ret.urb.error_count
        ELSE /\ ret.request.packet_count = 0
             /\ ret.request.error_count = 0
             /\ ret.request.iso_packets = <<>>

\* An Iso URB of two packets has been given back after a fetch_data: the
\* request carries two packets, each with nothing transferred and the code
\* of Pending.
C32_Witness ==
    /\ GivenBack
    /\ ret.urb.kind = "Iso"
    /\ ret.request.packet_count = 2
    /\ ret.request.iso_packets
          = <<[packet_actual |-> 0, status |-> 0 - EINPROGRESS],
              [packet_actual |-> 0, status |-> 0 - EINPROGRESS]>>
    /\ ret.request.error_count = 0

\* C37: for every URB the decoding produces, an Iso URB with more than
\* MAX_ISO_PACKETS packets included, fetch_data and giveback return Ok or an
\* error: neither panics.
C37_HandOverNeverPanics ==
    ret.tag \notin {"fetch_data_panic", "giveback_panic"}

\* C38: an IN-direction URB (bit 7 of the endpoint address set) given back
\* with a nonzero actual length carries a pointer to its transfer buffer in
\* the give-back request, and Endpoint::direction is In exactly when bit 7
\* of the endpoint address is set.
C38_InBufferReachesKernel ==
    GivenBack =>
        /\ (Endpoint_direction(ret.urb.epadr) = "In") <=> BitSeven(ret.urb.epadr)
        /\ (BitSeven(ret.urb.epadr) /\ ret.urb.buf_len # 0) =>
              ret.request.buffer = "ptr"

(***************************************************************************)
(* A client that fetches work from one Controller with a connected port    *)
(* and fetches data for, gives back or drops the URBs it gets.             *)
(***************************************************************************)
InitUrb ==
    /\ controllers = [c \in Slots |->
                        IF c = 1
                        THEN [dev |-> 3,
                              open_ports |-> [i \in 1..MaxPorts |-> i = 1],
                              work_recv_split |-> FALSE]
                        ELSE NoController]
    /\ receivers = [h \in Handles |-> 0]
    /\ remotes = {}
    /\ panicked = FALSE
    /\ last = NoCall
    /\ InitUrbs
    /\ InitLoopOff
    /\ arg = NoArg
    /\ ret = NotCalled
    /\ inflight = NoFlights

NextUrb ==
    \/ \E c \in Slots : Controller_fetch_work_timeout(c)
    \/ \E r \in RemoteHandles, h \in UrbHandles : Remote_fetch_data(r, h)
    \/ \E r \in RemoteHandles, h \in UrbHandles : Remote_giveback(r, h)
    \/ \E h \in UrbHandles : DropUrb(h)
    \/ \E h \in UrbHandles : KernelCancel(h)

SpecUrb == InitUrb /\ [][NextUrb]_vars

\* C7: giveback returns success when the give-back ioctl succeeds or fails
\* with ECANCELED, and returns the ioctl's error for every other failure.
C7_GivebackCoercesCanceled ==
    (last.op = "giveback" /\ last.res # "Panic") =>
        /\ last.ioc \in {"Ok", "ECANCELED"} => last.res = "Ok"
        /\ last.ioc \notin {"Ok", "ECANCELED"} => last.res = last.ioc

\* A give-back that raced with the originator's cancel: the ioctl failed
\* with ECANCELED and giveback returned success.
C7_Witness ==
    /\ last.op = "giveback"
    /\ last.ioc = "ECANCELED"
    /\ last.res = "Ok"

\* C12: from its decoding to its give-back, an Int, Ctrl or Bulk URB reports
\* packet count zero, and an Iso URB has exactly as many iso packets as the
\* kernel side reported in its envelope: fetch_data leaves the number of
\* entries alone.
C12_PacketCountIsStable ==
    \A h \in UrbHandles :
        urbs[h].kind # "none" =>
            IF urbs[h].kind = "Iso"
            THEN /\ Len(urbs[h].iso_packets) = hist.packets[h]
                 /\ Urb_packet_count(urbs[h]) = hist.packets[h]
            ELSE Urb_packet_count(urbs[h]) = 0

\* An Iso URB with packets after a successful fetch_data.
C12_Witness ==
    /\ last.op = "fetch_data"
    /\ last.res = "Ok"
    /\ urbs[last.p].kind = "Iso"
    /\ hist.packets[last.p] = MaxPackets
    /\ Len(urbs[last.p].iso_packets) = MaxPackets

\* C13: after a successful fetch_data on an Iso URB that came with n packets,
\* the URB has exactly n iso packets, and the packet at every index is
\* Pending, has actual length zero, and has the offset and the length the
\* kernel side supplied for that index.
C13_FetchDataFillsIsoPackets ==
    (last.op = "fetch_data" /\ last.res = "Ok" /\ urbs[last.p].kind = "Iso") =>
        LET pk == urbs[last.p].iso_packets
        IN /\ Len(pk) = hist.packets[last.p]
           /\ \A i \in 1..hist.packets[last.p] :
                /\ pk[i].status = "Pending"
                /\ pk[i].packet_actual = 0
                /\ pk[i].offset = KernelIsoPacketData(i).offset
                /\ pk[i].packet_length = KernelIsoPacketData(i).packet_length

\* A successful fetch_data has filled the last of several packets, at a
\* non-zero offset.
C13_Witness ==
    /\ last.op = "fetch_data"
    /\ last.res = "Ok"
    /\ urbs[last.p].kind = "Iso"
    /\ hist.packets[last.p] > 1
    /\ urbs[last.p].iso_packets[hist.packets[last.p]].offset > 0
    /\ urbs[last.p].iso_packets[hist.packets[last.p]].status = "Pending"

(***************************************************************************)
(* The driver loop of examples/virtual_device.rs: main().                  *)
(***************************************************************************)
\* Lengths in the first byte of DEV_DESC, CONF_DESC, STR0_DESC and STR1_DESC.
DEV_DESC_LEN == 18
CONF_DESC_LEN == 9
STR0_DESC_LEN == 4
STR1_DESC_LEN == 26

Min(a, b) == IF a <= b THEN a ELSE b

\* io::Error::kind() of an ioctl error.
ErrorKindAlwaysTimedOut(errno) == "TimedOut"

ErrorKind(errno) ==
    CASE errno = "ETIMEDOUT" -> "TimedOut"
      [] errno = "EINTR" -> "Interrupted"
      [] errno = "EINVAL" -> "InvalidInput"
      [] errno = "ENOENT" -> "NotFound"
      [] OTHER -> "Uncategorized"

\* IocPortStat::default() (the value or_default() inserts).
DefaultPortStat == [status |-> {}, change |-> {}, index |-> 0, flags |-> {}]

\* HashMap: entry(k) set to v, and the value under k.
MapSet(f, k, v) == [q \in (DOMAIN f) \cup {k} |-> IF q = k THEN v ELSE f[q]]
PrevPortStat(p) == IF p \in DOMAIN port_stats THEN port_stats[p] ELSE DefaultPortStat

\* The PortStat branch: the device map after the snapshot `next'.
DevicesAfterPortStat(dev, next) ==
    LET d1 == IF "CONNECTION" \in next.change
              THEN MapSet(dev, next.index, 255)
              ELSE dev
    IN IF "RESET" \in next.change /\ "RESET" \notin next.status
          /\ "ENABLE" \in next.status
       THEN MapSet(d1, next.index, 0)
       ELSE d1

\* The port calls the branch makes, numbered in the order it makes them.
PortCallName(k) == CASE k = 1 -> "port_connect"
                     [] k = 2 -> "port_reset_done"
                     [] k = 3 -> "port_resumed"

\* Port calls decided from the delivered snapshot alone, without the
\* retained one, in place of PortCalls.
PortCalls_of_next(prev, next) ==
    (IF "POWER" \in next.status THEN {1} ELSE {})
    \cup (IF {"RESET", "CONNECTION"} \subseteq next.status THEN {2} ELSE {})
    \cup (IF "RESUMING" \in next.flags /\ "CONNECTION" \in next.status
          THEN {3} ELSE {})

\* Port calls that complete a reset and a resume of a port nothing is
\* connected to, in place of PortCalls.
PortCalls_unconnected(prev, next) ==
    (IF "POWER" \notin prev.status /\ "POWER" \in next.status THEN {1} ELSE {})
    \cup (IF "RESET" \notin prev.status /\ "RESET" \in next.status
          THEN {2} ELSE {})
    \cup (IF "RESUMING" \notin prev.flags /\ "RESUMING" \in next.flags
          THEN {3} ELSE {})

PortCalls(prev, next) ==
    (IF "POWER" \notin prev.status /\ "POWER" \in next.status THEN {1} ELSE {})
    \cup (IF "RESET" \notin prev.status /\ {"RESET", "CONNECTION"} \subseteq next.status
          THEN {2} ELSE {})
    \cup (IF "RESUMING" \notin prev.flags /\ "RESUMING" \in next.flags
             /\ "CONNECTION" \in next.status
          THEN {3} ELSE {})

\* fail = 0: every port call succeeded; fail = k: call k failed and the
\* unwrap() on its result panicked.
LoopPortStat(next, fail) ==
    LET prev == PrevPortStat(next.index)
        calls == PortCalls(prev, next)
        made == IF fail = 0 THEN calls ELSE {k \in calls : k <= fail}
    IN /\ fail \in {0} \cup calls
       /\ devices' = DevicesAfterPortStat(devices, next)
       /\ port_stats' = MapSet(port_stats, next.index,
                               IF fail = 0 THEN next ELSE prev)
       /\ issued' = {<<PortCallName(k), next.index>> : k \in made}
       /\ seen' = [prev |-> prev, next |-> next]
       /\ controllers' = IF 1 \in made /\ fail # 1
                         THEN [controllers EXCEPT
                                 ![1] = port_connect_eff(@, next.index, "Ok")]
                         ELSE controllers
       /\ panicked' = (fail # 0)
       /\ pc' = pc

\* UrbWithData::from_ioctl and needs_data_fetch.
UrbKind(typ) == CASE typ = USB_VHCI_URB_TYPE_ISO -> "Iso"
                  [] typ = USB_VHCI_URB_TYPE_INT -> "Int"
                  [] typ = USB_VHCI_URB_TYPE_CONTROL -> "Ctrl"
                  [] typ = USB_VHCI_URB_TYPE_BULK -> "Bulk"

UrbWithData_from_ioctl(u, handle) ==
    [kind |-> UrbKind(u.typ),
     status |-> "Pending",
     handle |-> handle,
     buf_len |-> IF u.typ = USB_VHCI_URB_TYPE_ISO \/ u.endpoint % 256 < 128
                 THEN u.buffer_length ELSE 0,
     buf_cap |-> u.buffer_length,
     iso_packets |-> IF u.typ = USB_VHCI_URB_TYPE_ISO
                     THEN [i \in 1..u.packet_count |-> DefaultIsoPacket]
                     ELSE <<>>,
     error_count |-> 0,
     devadr |-> u.address,
     epadr |-> u.endpoint,
     setup |-> u.setup_packet]

UrbWithData_needs_data_fetch(urb) ==
    IF urb.kind = "Iso" THEN Len(urb.iso_packets) # 0 ELSE urb.buf_len # 0

\* The address check of the ProcessUrb branch.
KnownAddress(dev, adr) == \E p \in DOMAIN dev : dev[p] = adr

\* IocSetupPacket::request_type: control_type() and recipient() unwrap the
\* reserved bit patterns.
RequestTypeOk(bm) == ((bm % 128) \div 32) # 3 /\ (bm % 32) <= 3

IsAnycast(epadr) == epadr % 128 = 0

\* An answer that is not cut to the requested length, in place of Written.
Written_whole_descriptor(urb, desc_len) ==
    Min(desc_len, urb.buf_cap - urb.buf_len)

\* Bytes a GET_DESCRIPTOR answer writes: min(desc[0], wLength) bytes zipped
\* with what is left of the transfer buffer.
Written(urb, desc_len) ==
    Min(Min(desc_len, urb.setup.w_length), urb.buf_cap - urb.buf_len)

Answer(urb, desc_len) ==
    [urb EXCEPT !.status = "Success", !.buf_len = @ + Written(urb, desc_len)]

\* process_urb.
process_urb(urb) ==
    LET bm == urb.setup.bm_request_type
        req == urb.setup.b_request
        desc == urb.setup.w_value \div 256
        low == urb.setup.w_value % 256
    IN IF urb.kind # "Ctrl" THEN urb
       ELSE IF ~IsAnycast(urb.epadr) THEN [urb EXCEPT !.status = "Stall"]
       ELSE IF bm = 0 /\ req = 9 THEN [urb EXCEPT !.status = "Success"]
       ELSE IF bm = 1 /\ req = 17 THEN [urb EXCEPT !.status = "Success"]
       ELSE IF bm = 128 /\ req = 6 /\ desc = 1 THEN Answer(urb, DEV_DESC_LEN)
       ELSE IF bm = 128 /\ req = 6 /\ desc = 2 THEN Answer(urb, CONF_DESC_LEN)
       ELSE IF bm = 128 /\ req = 6 /\ desc = 3 /\ low = 0
            THEN Answer(urb, STR0_DESC_LEN)
       ELSE IF bm = 128 /\ req = 6 /\ desc = 3 /\ low = 1
            THEN Answer(urb, STR1_DESC_LEN)
       ELSE [urb EXCEPT !.status = "Stall"]

\* The descriptors of the example device.
DEV_DESC == <<18, 1, 0, 2, 0, 0, 0, 64, 173, 222, 239, 190, 56, 17, 0, 1, 0, 1>>
CONF_DESC == <<9, 2, 18, 0, 1, 1, 0, 128, 0, 9, 4, 0, 0, 0, 0, 0, 0, 0>>
STR0_DESC == <<4, 3, 9, 4>>
STR1_DESC == <<26, 3, 72, 0, 101, 0, 108, 0, 108, 0, 111, 0, 32, 0, 87, 0, 111, 0,
               114, 0, 108, 0, 100, 0, 33, 0>>

\* The descriptor a GET_DESCRIPTOR arm of process_urb answers with; <<>> when
\* the request takes another arm.
AnsweredDescriptor(urb) ==
    LET bm == urb.setup.bm_request_type
        req == urb.setup.b_request
        desc == urb.setup.w_value \div 256
        low == urb.setup.w_value % 256
    IN IF urb.kind # "Ctrl" \/ ~IsAnycast(urb.epadr) \/ bm # 128 \/ req # 6
       THEN <<>>
       ELSE IF desc = 1 THEN DEV_DESC
       ELSE IF desc = 2 THEN CONF_DESC
       ELSE IF desc = 3 /\ low = 0 THEN STR0_DESC
       ELSE IF desc = 3 /\ low = 1 THEN STR1_DESC
       ELSE <<>>

\* The bytes process_urb writes behind the committed part of the transfer
\* buffer: left.write(right) for the pairs of the zip.
process_urb_bytes(urb) ==
    LET d == AnsweredDescriptor(urb)
    IN IF d = <<>> THEN <<>> ELSE SubSeq(d, 1, Written(urb, d[1]))

\* GET_DESCRIPTOR requests the kernel side sends: for the device, the
\* configuration and the strings 0, 1 and 2, to endpoint 0 as OUT and as IN,
\* with a requested length and a transfer buffer below, at and above the
\* descriptor sizes.
DescriptorInputs ==
    {UrbWithData_from_ioctl(
        [NoIocUrb EXCEPT !.typ = USB_VHCI_URB_TYPE_CONTROL,
                         !.endpoint = e,
                         !.buffer_length = b,
                         !.setup_packet = [NoSetup EXCEPT !.bm_request_type = 128,
                                                          !.b_request = 6,
                                                          !.w_value = v,
                                                          !.w_length = wl]], 1) :
        e \in {0, 128}, b \in {0, 8, 18, 64},
        v \in {256, 512, 768, 769, 770}, wl \in {0, 8, 9, 18, 26, 64}}

InitDescriptor ==
    /\ InitController
    /\ InitUrbs
    /\ InitLoopOff
    /\ arg \in {[fn |-> "process_urb", urb |-> u] : u \in DescriptorInputs}
    /\ ret = NotCalled
    /\ inflight = NoFlights

CallProcessUrb ==
    /\ ret = NotCalled
    /\ ret' = [tag |-> "process_urb", urb |-> process_urb(arg.urb),
               bytes |-> process_urb_bytes(arg.urb)]
    /\ UNCHANGED <<ctlVars, last, arg, urbVars, loopVars, inflight>>

NextDescriptor == CallProcessUrb

SpecDescriptor == InitDescriptor /\ [][NextDescriptor]_vars

\* process_urb has answered a GET_DESCRIPTOR for one of the four descriptors.
DescriptorAnswered ==
    ret.tag = "process_urb" /\ AnsweredDescriptor(arg.urb) # <<>>

\* The first n entries of s.
Prefix(s, n) == [i \in 1..n |-> s[i]]

\* C24 as stated: the answer to a GET_DESCRIPTOR for the device, the
\* configuration or a string descriptor is the first min(descriptor size,
\* wLength) bytes of the descriptor, that length is committed and the status
\* is Success.
C24_WritesMinOfSizeAndLength ==
    DescriptorAnswered =>
        LET d == AnsweredDescriptor(arg.urb)
            n == Min(d[1], arg.urb.setup.w_length)
        IN /\ ret.bytes = Prefix(d, n)
           /\ ret.urb.buf_len = arg.urb.buf_len + n
           /\ ret.urb.status = "Success"

\* C24 as the code has it: the answer is the first n bytes of the
\* descriptor, n the least of the descriptor's length byte, wLength and the
\* room left in the transfer buffer; n is committed, the status is Success
\* and nothing else of the Urb changes.
C24_WritesWhatFits ==
    DescriptorAnswered =>
        LET d == AnsweredDescriptor(arg.urb)
            room == arg.urb.buf_cap - arg.urb.buf_len
            n == Len(ret.bytes)
        IN /\ n <= d[1] /\ n <= arg.urb.setup.w_length /\ n <= room
           /\ n \in {d[1], arg.urb.setup.w_length, room}
           /\ ret.bytes = Prefix(d, n)
           /\ ret.urb = [arg.urb EXCEPT !.status = "Success",
                                        !.buf_len = arg.urb.buf_len + n]

\* The device descriptor was asked for with wLength 8 and a buffer of 8
\* bytes: the answer is the first 8 of its 18 bytes.
C24_Witness ==
    /\ DescriptorAnswered
    /\ AnsweredDescriptor(arg.urb) = DEV_DESC
    /\ arg.urb.setup.w_length = 8
    /\ arg.urb.buf_cap = 8
    /\ ret.bytes = <<18, 1, 0, 2, 0, 0, 0, 64>>
    /\ ret.urb.buf_len = 8
    /\ ret.urb.status = "Success"

\* The rest of the ProcessUrb branch up to the give-back: the SET_ADDRESS
\* case or process_urb.  Gives the Urb to give back and the device map, or a
\* panic of one of the unwrap()s.
LoopRespond(urb, dev) ==
    LET bm == urb.setup.bm_request_type
        value == urb.setup.w_value
    IN IF ~RequestTypeOk(bm) THEN [panic |-> TRUE, urb |-> urb, devices |-> dev]
       ELSE IF urb.kind = "Ctrl" /\ IsAnycast(urb.epadr) /\ bm = 0
               /\ urb.setup.b_request = 5
       THEN IF value > 255 THEN [panic |-> TRUE, urb |-> urb, devices |-> dev]
            ELSE IF value >= 128
            THEN [panic |-> FALSE, urb |-> [urb EXCEPT !.status = "Stall"],
                  devices |-> dev]
            ELSE IF value - 1 < 1 \/ value - 1 >= 32
            THEN [panic |-> TRUE, urb |-> urb, devices |-> dev]
            ELSE [panic |-> FALSE, urb |-> [urb EXCEPT !.status = "Success"],
                  devices |-> IF (value - 1) \in DOMAIN dev
                              THEN [dev EXCEPT ![value - 1] = value]
                              ELSE dev]
       ELSE [panic |-> FALSE, urb |-> process_urb(urb), devices |-> dev]

\* What the kernel side sends to the example: requests for the default
\* address and for address 2, and snapshots of ports 1..MaxPorts.
LoopUrbMenu ==
    {[NoIocUrb EXCEPT !.typ = USB_VHCI_URB_TYPE_CONTROL,
                      !.setup_packet = SetAddressSetup],
     [NoIocUrb EXCEPT !.typ = USB_VHCI_URB_TYPE_CONTROL, !.endpoint = 128,
                      !.buffer_length = MaxLen,
                      !.setup_packet = [NoSetup EXCEPT !.bm_request_type = 128,
                                                       !.b_request = 6,
                                                       !.w_value = 256,
                                                       !.w_length = MaxLen]],
     [NoIocUrb EXCEPT !.typ = USB_VHCI_URB_TYPE_BULK, !.endpoint = 1,
                      !.address = 2, !.buffer_length = MaxLen]}

LoopPortStatMenu ==
    {[status |-> sc[1], change |-> sc[2], index |-> i, flags |-> {}] :
        i \in 1..MaxPorts,
        sc \in {<<{"POWER"}, {}>>,
                <<{"POWER", "CONNECTION"}, {"CONNECTION"}>>,
                <<{"POWER", "CONNECTION", "RESET"}, {}>>,
                <<{"POWER", "CONNECTION", "ENABLE"}, {"RESET"}>>}}

\* The Urb the loop is working on.
Current == CHOOSE h \in UrbHandles : urbs[h].kind # "none"

\* The top of the loop: fetch_work_timeout, and the match on its result up
\* to the first fetch-data or give-back.
\* A CancelUrb arm that gives the canceled request back, in place of
\* LoopCancelUrb.
LoopCancelUrbGivesBack(h) ==
    /\ hist' = [hist EXCEPT !.canceled = @ \cup {h},
                            !.given = @ \cup {h},
                            !.late = IF h \in hist.given THEN @ \cup {h} ELSE @,
                            !.after_cancel = @ \cup {h}]
    /\ request' = [ioctl |-> "giveback", handle |-> h,
                   status |-> 0 - ECONNRESET, buffer_actual |-> 0,
                   buffer |-> "null", iso_packets |-> <<>>, packet_count |-> 0,
                   error_count |-> 0]

\* The CancelUrb arm: the handle is logged, nothing is issued.
LoopCancelUrb(h) ==
    /\ hist' = [hist EXCEPT !.canceled = @ \cup {h}]
    /\ request' = request

LoopFetchWorkFrom(menu, snaps) ==
    /\ ~panicked
    /\ pc = "fetch_work"
    /\ \E ans \in KernelWork(controllers[1].dev, menu, snaps) :
        /\ KernelSent(ans)
        /\ IF ans.kind = "Err"
           THEN /\ IF ErrorKind(ans.errno) = "TimedOut"
                   THEN /\ last' = Call("loop_fetch_work", 1, 0, "TimedOut",
                                        ans.errno, FALSE)
                        /\ UNCHANGED panicked
                   ELSE /\ last' = Call("loop_fetch_work", 1, 0, "Panic",
                                        ans.errno, FALSE)
                        /\ panicked' = TRUE
                /\ UNCHANGED <<controllers, urbs, hist, request, pc, devices, port_stats,
                               issued, seen>>
           ELSE IF ans.w.typ = USB_VHCI_WORK_TYPE_PORT_STAT
           THEN IF ans.w.port.index < 1 \/ ans.w.port.index >= 32
                THEN /\ panicked' = TRUE
                     /\ last' = Call("loop_fetch_work", 1, 0, "Panic", "Ok", FALSE)
                     /\ UNCHANGED <<controllers, urbs, hist, request, pc, devices,
                                    port_stats, issued, seen>>
                ELSE /\ \E fail \in 0..3 : LoopPortStat(ans.w.port, fail)
                     /\ last' = Call("loop_fetch_work", 1, ans.w.port.index,
                                     IF panicked' THEN "Panic" ELSE "PortStat",
                                     "Ok", FALSE)
                     /\ UNCHANGED <<urbs, hist, request>>
           ELSE IF ans.w.typ = USB_VHCI_WORK_TYPE_PROCESS_URB
           THEN LET urb == UrbWithData_from_ioctl(ans.w.urb, ans.w.handle)
                IN IF ~KnownAddress(devices, ans.w.urb.address)
                   THEN /\ last' = Call("loop_fetch_work", 1, ans.w.handle,
                                        "Skipped", "Ok", FALSE)
                        /\ UNCHANGED <<controllers, panicked, urbs, hist, request, pc,
                                       devices, port_stats, issued, seen>>
                   ELSE /\ urbs' = [urbs EXCEPT ![ans.w.handle] = urb]
                        /\ pc' = IF UrbWithData_needs_data_fetch(urb)
                                 THEN "fetch_data" ELSE "giveback"
                        /\ last' = Call("loop_fetch_work", 1, ans.w.handle,
                                        "ProcessUrb", "Ok", FALSE)
                        /\ UNCHANGED <<controllers, panicked, hist, request, devices,
                                       port_stats, issued, seen>>
           ELSE /\ LoopCancelUrb(ans.w.handle)
                /\ last' = Call("loop_fetch_work", 1, ans.w.handle, "CancelUrb",
                                "Ok", FALSE)
                /\ UNCHANGED <<controllers, panicked, urbs, pc, devices,
                               port_stats, issued, seen>>
    /\ UNCHANGED <<receivers, remotes, pureVars, inflight>>

LoopFetchWork == LoopFetchWorkFrom(LoopUrbMenu, LoopPortStatMenu)

\* vhci.fetch_data(&mut urb): Ok and ECANCELED go on, any other error panics.
LoopFetchData ==
    /\ ~panicked
    /\ pc = "fetch_data"
    /\ \E ioc \in UrbIoctlResults(HandleOf(1), Current) :
          /\ urbs' = [urbs EXCEPT ![Current] = fetch_data_eff(@, ioc)]
          /\ panicked' = (ioc \notin {"Ok", "ECANCELED"})
          /\ pc' = IF ioc \in {"Ok", "ECANCELED"} THEN "giveback" ELSE pc
          /\ last' = Call("loop_fetch_data", 1, Current,
                          IF ioc \in {"Ok", "ECANCELED"} THEN ioc ELSE "Panic",
                          ioc, FALSE)
    /\ request' = IocUrbData(urbs[Current])
    /\ hist' = NoteOp(Current, "fetch_data")
    /\ UNCHANGED <<controllers, receivers, remotes, kurbs, cancelq, devices,
                   port_stats, issued, seen, pureVars, inflight>>

\* The answer to the request, then vhci.giveback(urb).unwrap().
LoopGiveback ==
    /\ ~panicked
    /\ pc = "giveback"
    /\ LET r == LoopRespond(urbs[Current], devices)
       IN IF r.panic
          THEN /\ panicked' = TRUE
               /\ last' = Call("loop_respond", 1, Current, "Panic", "none", FALSE)
               /\ UNCHANGED <<urbs, kurbs, hist, request, pc, devices>>
          ELSE /\ \E ioc \in UrbIoctlResults(HandleOf(1), Current) :
                     /\ kurbs' = IF ioc \in {"Ok", "ECANCELED"}
                                 THEN [kurbs EXCEPT ![Current] = "done"]
                                 ELSE kurbs
                     /\ panicked' = (giveback_result(ioc) # "Ok")
                     /\ pc' = IF giveback_result(ioc) = "Ok" THEN "fetch_work"
                              ELSE pc
                     /\ last' = Call("loop_giveback", 1, Current,
                                     IF giveback_result(ioc) = "Ok" THEN "Ok"
                                     ELSE "Panic", ioc, FALSE)
               /\ urbs' = [urbs EXCEPT ![Current] = giveback_moves(r.urb)]
               /\ request' = IocGiveback(r.urb)
               /\ hist' = NoteOp(Current, "giveback")
               /\ devices' = r.devices
    /\ UNCHANGED <<controllers, receivers, remotes, cancelq, port_stats, issued, seen,
                   pureVars, inflight>>

\* The ten seconds are over: main() returns and the Controller is dropped.
LoopExit ==
    /\ ~panicked
    /\ pc = "fetch_work"
    /\ pc' = "exit"
    /\ controllers' = [controllers EXCEPT ![1] = NoController]
    /\ last' = Call("loop_exit", 1, 0, "Ok", "none", FALSE)
    /\ UNCHANGED <<receivers, remotes, panicked, urbVars, devices, port_stats,
                   issued, seen, pureVars, inflight>>

\* main() after Controller::open(2).unwrap(), with both maps empty.
InitLoop ==
    /\ controllers = [c \in Slots |->
                        IF c = 1
                        THEN [dev |-> 3,
                              open_ports |-> BitVecFromElem(MaxPorts, FALSE),
                              work_recv_split |-> FALSE]
                        ELSE NoController]
    /\ receivers = [h \in Handles |-> 0]
    /\ remotes = {}
    /\ panicked = FALSE
    /\ last = NoCall
    /\ InitUrbs
    /\ pc = "fetch_work"
    /\ devices = <<>>
    /\ port_stats = <<>>
    /\ issued = {}
    /\ seen = NoSeen
    /\ arg = NoArg
    /\ ret = NotCalled
    /\ inflight = NoFlights

NextLoop ==
    \/ LoopFetchWork
    \/ LoopFetchData
    \/ LoopGiveback
    \/ LoopExit
    \/ \E h \in UrbHandles : KernelCancel(h)

SpecLoop == InitLoop /\ [][NextLoop]_vars

\* Both kinds of client: a caller of the library, or the example's main().
InitLife == InitUrb \/ InitLoop

NextLife ==
    \/ pc = "off" /\ NextUrb
    \/ pc # "off" /\ NextLoop

SpecLife == InitLife /\ [][NextLife]_vars

C6_NothingIssuedAfterCancel == hist.after_cancel = {}

\* The driver loop has received the cancel notice of a request it skipped
\* and has then given back another request.
C6_Witness ==
    /\ last.op = "loop_giveback"
    /\ last.res = "Ok"
    /\ \E h \in hist.canceled : h # last.p /\ h \notin hist.given

\* C9: the fetch-work of the driver loop reports the time-out condition
\* exactly when the wait budget elapsed (ETIMEDOUT), not for another ioctl
\* failure, and the loop then polls again with the ports, the addresses and
\* the URBs as they were.
C9_TimeoutPollsAgain ==
    [][(last'.op = "loop_fetch_work" /\ last'.ioc # "Ok") =>
          /\ (last'.res = "TimedOut") <=> (last'.ioc = "ETIMEDOUT")
          /\ last'.ioc = "ETIMEDOUT" =>
                /\ ~panicked'
                /\ pc' = "fetch_work"
                /\ UNCHANGED <<controllers, devices, port_stats, issued, seen, kurbs,
                               cancelq, urbs, hist, request>>
          /\ last'.ioc # "ETIMEDOUT" => panicked']_vars

\* A fetch-work of the driver loop has timed out with a device addressed, a
\* request given back and another one delivered and skipped.
C9_Witness ==
    /\ last.op = "loop_fetch_work"
    /\ last.res = "TimedOut"
    /\ pc = "fetch_work"
    /\ ~panicked
    /\ hist.given # {}
    /\ \E p \in DOMAIN devices : devices[p] = 2

(***************************************************************************)
(* The PortStat arm of the driver loop on its own: the kernel side sends   *)
(* port snapshots only, any status and flags, in any order.                *)
(***************************************************************************)
SnapshotMenu ==
    {[status |-> st, change |-> {}, index |-> i, flags |-> fl] :
        i \in 1..MaxPorts,
        st \in SUBSET {"POWER", "CONNECTION", "RESET"},
        fl \in SUBSET {"RESUMING"}}

LoopFetchSnapshot == LoopFetchWorkFrom({}, SnapshotMenu)

NextSnapshots ==
    \/ LoopFetchSnapshot
    \/ LoopExit

SpecSnapshots == InitLoop /\ [][NextSnapshots]_vars

\* The last iteration of the driver loop took the PortStat arm and ran it
\* to its end.
PortStatHandled == last.op = "loop_fetch_work" /\ last.res = "PortStat"

\* The last iteration took the PortStat arm, and the unwrap() of a port call
\* panicked in it.
PortStatPanicked ==
    last.op = "loop_fetch_work" /\ last.res = "Panic" /\ last.p # 0

\* C22: when the PortStat arm is given the snapshot it has retained for the
\* port, that is the same snapshot twice in a row, the second delivery
\* issues no port_connect, no port_reset_done and no port_resumed, and the
\* arm runs to its end.
C22_SameSnapshotIssuesNothing ==
    /\ PortStatHandled /\ seen.next = seen.prev => issued = {}
    /\ PortStatPanicked => seen.next # seen.prev

\* A snapshot with power, a connection, a reset and a resume in it has been
\* delivered for the second time in a row, and nothing was issued.
C22_Witness ==
    /\ PortStatHandled
    /\ seen.next = seen.prev
    /\ seen.next.status = {"POWER", "CONNECTION", "RESET"}
    /\ seen.next.flags = {"RESUMING"}
    /\ port_stats[last.p] = seen.next
    /\ issued = {}

\* C27: the PortStat arm compares the delivered snapshot with the one it
\* retained for the port (none retained: the empty one): it issues
\* port_connect exactly when POWER is newly set, port_reset_done exactly
\* when RESET is newly set and RESET and CONNECTION are both set,
\* port_resumed exactly when RESUMING is newly set while CONNECTION is set,
\* nothing else and nothing for another port, and retains the delivered
\* snapshot; a snapshot without POWER fires no port_connect.  When one of
\* the calls fails the arm panics and the calls after it are not made.
C27_PortCallsOnEdges ==
    LET prev == seen.prev
        next == seen.next
        p == last.p
        connect == "POWER" \notin prev.status /\ "POWER" \in next.status
        reset == "RESET" \notin prev.status
                 /\ {"RESET", "CONNECTION"} \subseteq next.status
        resume == "RESUMING" \notin prev.flags /\ "RESUMING" \in next.flags
                  /\ "CONNECTION" \in next.status
        expected == (IF connect THEN {<<"port_connect", p>>} ELSE {})
                    \cup (IF reset THEN {<<"port_reset_done", p>>} ELSE {})
                    \cup (IF resume THEN {<<"port_resumed", p>>} ELSE {})
    IN /\ PortStatHandled =>
             /\ next.index = p
             /\ issued = expected
             /\ port_stats[p] = next
             /\ "POWER" \notin next.status => <<"port_connect", p>> \notin issued
       /\ PortStatPanicked =>
             /\ next.index = p
             /\ issued # {}
             /\ issued \subseteq expected

\* A snapshot with a reset and a resume but no connection has been handled
\* after one with power alone: no call was made.
C27_Witness ==
    /\ PortStatHandled
    /\ seen.prev.status = {"POWER"}
    /\ seen.prev.flags = {}
    /\ seen.next.status = {"POWER", "RESET"}
    /\ seen.next.flags = {"RESUMING"}
    /\ issued = {}

\* C28: the address reactions of the PortStat arm are edge-triggered: a
\* second delivery of the snapshot retained for the port leaves the device
\* map as it is: the cached address is not invalidated again and not set
\* to 0 again.
C28_AddressReactionsOnEdges ==
    [][(last'.op = "loop_fetch_work" /\ last'.res = "PortStat"
        /\ seen'.next = seen'.prev)
          => devices' = devices]_vars

(***************************************************************************)
(* The driver loop answering SET_ADDRESS requests: the kernel side reports *)
(* the end of a reset of each port and sends SET_ADDRESS requests to the   *)
(* default address with a choice of wValue, and a SET_CONFIGURATION        *)
(* request to address 3.                                                   *)
(***************************************************************************)
SetAddressValues == {1, 2, 3, 33, 129, 256}

AddressUrbMenu ==
    {[NoIocUrb EXCEPT !.typ = USB_VHCI_URB_TYPE_CONTROL,
                      !.setup_packet = [NoSetup EXCEPT
                                          !.b_request = 5,
                                          !.w_value = v]] :
        v \in SetAddressValues}
    \cup {[NoIocUrb EXCEPT !.typ = USB_VHCI_URB_TYPE_CONTROL, !.address = 3,
                           !.setup_packet = [NoSetup EXCEPT
                                               !.b_request = 9]]}

AddressSnapshots ==
    {[status |-> {"POWER", "CONNECTION", "ENABLE"}, change |-> {"RESET"},
      index |-> i, flags |-> {}] : i \in 1..MaxPorts}

LoopFetchAddressWork == LoopFetchWorkFrom(AddressUrbMenu, AddressSnapshots)

NextAddress ==
    \/ LoopFetchAddressWork
    \/ LoopGiveback
    \/ \E h \in UrbHandles : KernelCancel(h)

SpecAddress == InitLoop /\ [][NextAddress]_vars

\* The request the loop is about to answer is a SET_ADDRESS on endpoint 0.
IsSetAddress(urb) ==
    /\ urb.kind = "Ctrl"
    /\ IsAnycast(urb.epadr)
    /\ urb.setup.bm_request_type = 0
    /\ urb.setup.b_request = 5

\* The step is the loop's answer to the request it holds: the SET_ADDRESS
\* case or process_urb, and the give-back.
LoopAnswers ==
    pc = "giveback" /\ last'.op \in {"loop_respond", "loop_giveback"}

\* The same loop, which does not stop between receiving a request and
\* giving it back: the give-back follows the fetch in the same iteration.
SpecAddressFair == SpecAddress /\ WF_vars(LoopGiveback)

\* C34: every URB the driver loop receives as a ProcessUrb work item is
\* eventually given back, unless the kernel side cancels it first (or the
\* loop panics): the loop drops no pending URB.
C34_ReceivedUrbsAreGivenBack ==
    \A h \in UrbHandles :
        (kurbs[h] = "delivered")
            ~> (h \in hist.given \/ kurbs[h] = "canceled" \/ panicked)

\* C25: a SET_ADDRESS request on endpoint 0 whose wValue is in 128..65535
\* is rejected: the status given back is Stall, no address of the device
\* map changes and the give-back is issued.
C25_SetAddressOutOfRangeStalls ==
    [][(LoopAnswers /\ IsSetAddress(urbs[Current])
        /\ urbs[Current].setup.w_value >= 128)
          => /\ last'.op = "loop_giveback"
             /\ request'.status = 0 - EPIPE
             /\ Current \in hist'.given
             /\ devices' = devices]_vars

\* C26: a SET_ADDRESS request on endpoint 0 whose wValue is an address
\* (0..127) is answered with Success and given back, and the devices that
\* received it (those at the address the request was sent to) are at the
\* requested address from then on, so that requests to that address are
\* processed.
C26_SetAddressIsRemembered ==
    [][(LoopAnswers /\ IsSetAddress(urbs[Current])
        /\ urbs[Current].setup.w_value < 128)
          => /\ last'.op = "loop_giveback"
             /\ request'.status = 0
             /\ Current \in hist'.given
             /\ \A p \in DOMAIN devices :
                   devices[p] = urbs[Current].devadr
                      => devices'[p] = urbs[Current].setup.w_value
             /\ KnownAddress(devices', urbs[Current].setup.w_value)]_vars

\* C29: the status of every URB the driver loop gives back, of any
\* transfer type, has been set since the decoding: the status in the
\* give-back request is not that of Pending.
C29_NeverGivenBackPending ==
    [][last'.op = "loop_giveback" => request'.status # 0 - EINPROGRESS]_vars

(***************************************************************************)
(* Decoding the setup packet's request type and request (usbfs.rs; the     *)
(* same bit operations are in ioctl.rs, IocSetupPacket).                   *)
(***************************************************************************)
URB_RQ_CLEAR_FEATURE == 1
URB_RQ_SET_FEATURE == 3
URB_RQ_SET_ADDRESS == 5
URB_RQ_GET_DESCRIPTOR == 6
URB_RQ_SET_DESCRIPTOR == 7
URB_RQ_GET_CONFIGURATION == 8
URB_RQ_SET_CONFIGURATION == 9
URB_RQ_GET_INTERFACE == 10
URB_RQ_SET_INTERFACE == 11
URB_RQ_SYNCH_FRAME == 12

None == [tag |-> "None"]
Some(v) == [tag |-> "Some", v |-> v]

\* Option::unwrap: the value, or a panic on None.
Unwrap(opt) == IF opt.tag = "Some" THEN [tag |-> "Ok", v |-> opt.v] ELSE [tag |-> "Panic"]

DescriptorType_from_u8(num) ==
    CASE num = 1 -> Some("Device")
      [] num = 2 -> Some("Configuration")
      [] num = 3 -> Some("String")
      [] num = 4 -> Some("Interface")
      [] num = 5 -> Some("Endpoint")
      [] OTHER -> None

Dir_from_u8(num) ==
    CASE num = 0 -> Some("Out")
      [] num = 1 -> Some("In")
      [] OTHER -> None

CtrlType_from_u8(num) ==
    CASE num = 0 -> Some("Standard")
      [] num = 1 -> Some("Class")
      [] num = 2 -> Some("Vendor")
      [] OTHER -> None

Recipient_from_u8(num) ==
    CASE num = 0 -> Some("Device")
      [] num = 1 -> Some("Interface")
      [] num = 2 -> Some("Endpoint")
      [] num = 3 -> Some("Other")
      [] OTHER -> None

\* The discriminants of the repr(u8) enums.
Dir_as_u8(d) == IF d = "Out" THEN 0 ELSE 1

CtrlType_as_u8(t) ==
    CASE t = "Standard" -> 0
      [] t = "Class" -> 1
      [] t = "Vendor" -> 2

Recipient_as_u8(r) ==
    CASE r = "Device" -> 0
      [] r = "Interface" -> 1
      [] r = "Endpoint" -> 2
      [] r = "Other" -> 3

\* (bm_request_type & 0x60) >> 5
Request_ctrl_type(bm) == Unwrap(CtrlType_from_u8((bm % 128) \div 32))

\* A direction read from bit 6, in place of Request_dir.
Request_dir_of_bit_six(bm) == Unwrap(Dir_from_u8((bm % 128) \div 64))

\* (bm_request_type & 0x80) >> 7
Request_dir(bm) == Unwrap(Dir_from_u8(bm \div 128))

\* bm_request_type & 0x1F
Request_recipient(bm) == Unwrap(Recipient_from_u8(bm % 32))

Request_kind(bm) ==
    LET d == Request_dir(bm)
        t == Request_ctrl_type(bm)
        r == Request_recipient(bm)
    IN IF d.tag = "Panic" \/ t.tag = "Panic" \/ r.tag = "Panic"
       THEN [tag |-> "Panic"]
       ELSE [tag |-> "Ok", dir |-> d.v, ctrl_type |-> t.v, recipient |-> r.v]

Req_Other(b) == [other |-> b]

Req_standard_from_u8(b_request) ==
    CASE b_request = 0 -> "GetStatus"
      [] b_request = URB_RQ_CLEAR_FEATURE -> "ClearFeature"
      [] b_request = URB_RQ_SET_FEATURE -> "SetFeature"
      [] b_request = URB_RQ_SET_ADDRESS -> "SetAddress"
      [] b_request = URB_RQ_GET_DESCRIPTOR -> "GetDescriptor"
      [] b_request = URB_RQ_SET_DESCRIPTOR -> "SetDescriptor"
      [] b_request = URB_RQ_GET_CONFIGURATION -> "GetConfiguration"
      [] b_request = URB_RQ_SET_CONFIGURATION -> "SetConfiguration"
      [] b_request = URB_RQ_GET_INTERFACE -> "GetInterface"
      [] b_request = URB_RQ_SET_INTERFACE -> "SetInterface"
      [] b_request = URB_RQ_SYNCH_FRAME -> "SynchFrame"
      [] OTHER -> Req_Other(b_request)

Req_class_from_u8(dir, b_request) ==
    CASE dir = "Out" /\ b_request = 1 -> "UacSetCur"
      [] dir = "In" /\ b_request = 1 -> "GetReport"
      [] b_request = 2 -> "UacSetMin"
      [] b_request = 3 -> "UacSetMax"
      [] b_request = 4 -> "UacSetRes"
      [] b_request = 9 -> "SetReport"
      [] b_request = 10 -> "UacSetIdle"
      [] b_request = 129 -> "UacGetCur"
      [] b_request = 130 -> "UacGetMin"
      [] b_request = 131 -> "UacGetMax"
      [] b_request = 132 -> "UacGetRes"
      [] b_request = 252 -> "GetRequests"
      [] b_request = 253 -> "PutRequests"
      [] b_request = 255 -> "BulkOnlyMassStorageReset"
      [] b_request = 254 -> "GetMaxLun"
      [] OTHER -> Req_standard_from_u8(b_request)

Request_req(bm, b_request) ==
    LET k == Request_kind(bm)
    IN IF k.tag = "Panic" THEN [tag |-> "Panic"]
       ELSE [tag |-> "Ok",
             v |-> CASE k.ctrl_type = "Standard" -> Req_standard_from_u8(b_request)
                     [] k.ctrl_type = "Class" /\ k.recipient = "Interface" ->
                          Req_class_from_u8(k.dir, b_request)
                     [] OTHER -> Req_Other(b_request)]

(***************************************************************************)
(* The decoders applied to every byte.                                     *)
(***************************************************************************)
Bytes == 0..255

\* Request types paired with every request byte: standard, class/interface
\* in both directions, vendor, and the reserved patterns.
RequestTypeSamples == {0, 33, 161, 64, 96, 4}

\* The named constants of Request, with the bytes the source gives them.
NamedRequests ==
    {[name |-> "STANDARD_DEVICE_GET_STATUS", bm_request_type |-> 128, b_request |-> 0],
     [name |-> "STANDARD_DEVICE_CLEAR_FEATURE", bm_request_type |-> 0, b_request |-> 1],
     [name |-> "STANDARD_DEVICE_SET_FEATURE", bm_request_type |-> 0, b_request |-> 3],
     [name |-> "STANDARD_DEVICE_SET_ADDRESS", bm_request_type |-> 0, b_request |-> 5],
     [name |-> "STANDARD_DEVICE_GET_DESCRIPTOR", bm_request_type |-> 128, b_request |-> 6],
     [name |-> "STANDARD_DEVICE_SET_DESCRIPTOR", bm_request_type |-> 0, b_request |-> 7],
     [name |-> "STANDARD_DEVICE_GET_CONFIGURATION", bm_request_type |-> 128, b_request |-> 8],
     [name |-> "STANDARD_DEVICE_SET_CONFIGURATION", bm_request_type |-> 0, b_request |-> 9],
     [name |-> "STANDARD_INTERFACE_GET_STATUS", bm_request_type |-> 129, b_request |-> 0],
     [name |-> "STANDARD_INTERFACE_CLEAR_FEATURE", bm_request_type |-> 1, b_request |-> 1],
     [name |-> "STANDARD_INTERFACE_SET_FEATURE", bm_request_type |-> 1, b_request |-> 3],
     [name |-> "STANDARD_INTERFACE_GET_INTERFACE", bm_request_type |-> 129, b_request |-> 10],
     [name |-> "STANDARD_INTERFACE_SET_INTERFACE", bm_request_type |-> 1, b_request |-> 17],
     [name |-> "STANDARD_ENDPOINT_GET_STATUS", bm_request_type |-> 130, b_request |-> 0],
     [name |-> "STANDARD_ENDPOINT_CLEAR_FEATURE", bm_request_type |-> 2, b_request |-> 1],
     [name |-> "STANDARD_ENDPOINT_SET_FEATURE", bm_request_type |-> 2, b_request |-> 3],
     [name |-> "STANDARD_ENDPOINT_SYNCH_FRAME", bm_request_type |-> 130, b_request |-> 18]}

RequestInputs ==
    {[fn |-> f, bm |-> b] :
        f \in {"Request::dir", "Request::ctrl_type", "Request::recipient",
               "Request::kind"},
        b \in Bytes}
    \cup {[fn |-> "Request::req", bm |-> b, b_request |-> q] :
            b \in RequestTypeSamples, q \in Bytes}
    \cup {[fn |-> "DescriptorType::from_u8", num |-> n] : n \in Bytes}
    \cup {[fn |-> "Request::kind, Request::req", name |-> c.name,
            bm |-> c.bm_request_type, b_request |-> c.b_request] :
            c \in NamedRequests}

InitRequest ==
    /\ InitController
    /\ InitUrbs
    /\ InitLoopOff
    /\ arg \in RequestInputs
    /\ ret = NotCalled
    /\ inflight = NoFlights

CallRequestField ==
    /\ arg.fn \in {"Request::dir", "Request::ctrl_type", "Request::recipient"}
    /\ ret = NotCalled
    /\ ret' = CASE arg.fn = "Request::dir" -> Request_dir(arg.bm)
                [] arg.fn = "Request::ctrl_type" -> Request_ctrl_type(arg.bm)
                [] arg.fn = "Request::recipient" -> Request_recipient(arg.bm)
    /\ UNCHANGED <<ctlVars, last, arg, urbVars, loopVars, inflight>>

CallRequestKind ==
    /\ arg.fn = "Request::kind"
    /\ ret = NotCalled
    /\ ret' = Request_kind(arg.bm)
    /\ UNCHANGED <<ctlVars, last, arg, urbVars, loopVars, inflight>>

CallRequestReq ==
    /\ arg.fn = "Request::req"
    /\ ret = NotCalled
    /\ ret' = Request_req(arg.bm, arg.b_request)
    /\ UNCHANGED <<ctlVars, last, arg, urbVars, loopVars, inflight>>

\* kind() and req() of one of the named constants.
CallNamedRequest ==
    /\ arg.fn = "Request::kind, Request::req"
    /\ ret = NotCalled
    /\ ret' = LET k == Request_kind(arg.bm)
                  r == Request_req(arg.bm, arg.b_request)
              IN IF k.tag = "Panic" \/ r.tag = "Panic"
                 THEN [tag |-> "Panic"]
                 ELSE [tag |-> "Ok", kind |-> k, req |-> r.v]
    /\ UNCHANGED <<ctlVars, last, arg, urbVars, loopVars, inflight>>

CallDescriptorTypeFromU8 ==
    /\ arg.fn = "DescriptorType::from_u8"
    /\ ret = NotCalled
    /\ ret' = [tag |-> "Ok", v |-> DescriptorType_from_u8(arg.num)]
    /\ UNCHANGED <<ctlVars, last, arg, urbVars, loopVars, inflight>>

NextRequest ==
    \/ CallRequestField
    \/ CallRequestKind
    \/ CallRequestReq
    \/ CallNamedRequest
    \/ CallDescriptorTypeFromU8

SpecRequest == InitRequest /\ [][NextRequest]_vars

\* C18: the decoders are total: for every request-type byte the direction,
\* control-type and recipient decoders return a value, and for every request
\* byte and every descriptor-type byte the request and descriptor-type
\* decoders return a value; none panics.
C18_DecodersAreTotal == ret # NotCalled => ret.tag = "Ok"

\* The three fields decoded from request-type byte bm, encoded again.
Reencoded(k) ==
    Dir_as_u8(k.dir) * 128 + CtrlType_as_u8(k.ctrl_type) * 32
        + Recipient_as_u8(k.recipient)

\* C19: for every valid request-type byte b (control type not 3, recipient at
\* most 3), the decoded direction, control type and recipient encoded as
\* (direction << 7) | (ctrl_type << 5) | recipient have b's bit 7, b's bits 5
\* and 6 and b's bits 0 to 4.
C19_RequestTypeRoundTrip ==
    (arg.fn = "Request::kind" /\ ret # NotCalled /\ RequestTypeOk(arg.bm)) =>
        /\ ret.tag = "Ok"
        /\ Reencoded(ret) \div 128 = arg.bm \div 128
        /\ (Reencoded(ret) % 128) \div 32 = (arg.bm % 128) \div 32
        /\ Reencoded(ret) % 32 = arg.bm % 32

\* The byte 0xA1 decoded: device to host, class, interface.
C19_Witness ==
    /\ arg.fn = "Request::kind"
    /\ arg.bm = 161
    /\ ret.tag = "Ok"
    /\ ret.dir = "In"
    /\ ret.ctrl_type = "Class"
    /\ ret.recipient = "Interface"

\* What the name of a constant states: STANDARD_<recipient>_<request>, device
\* to host for the GET_ requests and SYNCH_FRAME, host to device otherwise.
StatedByName(name) ==
    CASE name = "STANDARD_DEVICE_GET_STATUS" ->
           [dir |-> "In", ctrl_type |-> "Standard", recipient |-> "Device", req |-> "GetStatus"]
      [] name = "STANDARD_DEVICE_CLEAR_FEATURE" ->
           [dir |-> "Out", ctrl_type |-> "Standard", recipient |-> "Device", req |-> "ClearFeature"]
      [] name = "STANDARD_DEVICE_SET_FEATURE" ->
           [dir |-> "Out", ctrl_type |-> "Standard", recipient |-> "Device", req |-> "SetFeature"]
      [] name = "STANDARD_DEVICE_SET_ADDRESS" ->
           [dir |-> "Out", ctrl_type |-> "Standard", recipient |-> "Device", req |-> "SetAddress"]
      [] name = "STANDARD_DEVICE_GET_DESCRIPTOR" ->
           [dir |-> "In", ctrl_type |-> "Standard", recipient |-> "Device", req |-> "GetDescriptor"]
      [] name = "STANDARD_DEVICE_SET_DESCRIPTOR" ->
           [dir |-> "Out", ctrl_type |-> "Standard", recipient |-> "Device", req |-> "SetDescriptor"]
      [] name = "STANDARD_DEVICE_GET_CONFIGURATION" ->
           [dir |-> "In", ctrl_type |-> "Standard", recipient |-> "Device", req |-> "GetConfiguration"]
      [] name = "STANDARD_DEVICE_SET_CONFIGURATION" ->
           [dir |-> "Out", ctrl_type |-> "Standard", recipient |-> "Device", req |-> "SetConfiguration"]
      [] name = "STANDARD_INTERFACE_GET_STATUS" ->
           [dir |-> "In", ctrl_type |-> "Standard", recipient |-> "Interface", req |-> "GetStatus"]
      [] name = "STANDARD_INTERFACE_CLEAR_FEATURE" ->
           [dir |-> "Out", ctrl_type |-> "Standard", recipient |-> "Interface", req |-> "ClearFeature"]
      [] name = "STANDARD_INTERFACE_SET_FEATURE" ->
           [dir |-> "Out", ctrl_type |-> "Standard", recipient |-> "Interface", req |-> "SetFeature"]
      [] name = "STANDARD_INTERFACE_GET_INTERFACE" ->
           [dir |-> "In", ctrl_type |-> "Standard", recipient |-> "Interface", req |-> "GetInterface"]
      [] name = "STANDARD_INTERFACE_SET_INTERFACE" ->
           [dir |-> "Out", ctrl_type |-> "Standard", recipient |-> "Interface", req |-> "SetInterface"]
      [] name = "STANDARD_ENDPOINT_GET_STATUS" ->
           [dir |-> "In", ctrl_type |-> "Standard", recipient |-> "Endpoint", req |-> "GetStatus"]
      [] name = "STANDARD_ENDPOINT_CLEAR_FEATURE" ->
           [dir |-> "Out", ctrl_type |-> "Standard", recipient |-> "Endpoint", req |-> "ClearFeature"]
      [] name = "STANDARD_ENDPOINT_SET_FEATURE" ->
           [dir |-> "Out", ctrl_type |-> "Standard", recipient |-> "Endpoint", req |-> "SetFeature"]
      [] name = "STANDARD_ENDPOINT_SYNCH_FRAME" ->
           [dir |-> "In", ctrl_type |-> "Standard", recipient |-> "Endpoint", req |-> "SynchFrame"]

\* C40: each named standard Request constant decodes, through kind() and
\* req(), to the direction, control type, recipient and request that its
\* name states.
C40_NamedRequestsDecodeAsNamed ==
    (arg.fn = "Request::kind, Request::req" /\ ret # NotCalled) =>
        /\ ret.tag = "Ok"
        /\ ret.kind.dir = StatedByName(arg.name).dir
        /\ ret.kind.ctrl_type = StatedByName(arg.name).ctrl_type
        /\ ret.kind.recipient = StatedByName(arg.name).recipient
        /\ ToString(ret.req) = ToString(StatedByName(arg.name).req)

(***************************************************************************)
(* Port (lib.rs) over BoundedU8 (utils.rs).                                *)
(***************************************************************************)
\* A BoundedU8 whose upper bound is part of the range, in place of
\* BoundedU8_new.
BoundedU8_new_inclusive(LOWER_INC, UPPER_EX, num) ==
    IF LOWER_INC > num \/ UPPER_EX < num THEN None ELSE Some(num)

BoundedU8_new(LOWER_INC, UPPER_EX, num) ==
    IF LOWER_INC > num \/ UPPER_EX <= num THEN None ELSE Some(num)

\* Port(BoundedU8<1, 32>)
Port_new(port) ==
    LET num == BoundedU8_new(1, 32, port)
    IN IF num.tag = "Some" THEN Some([inner |-> num.v]) ELSE None

Port_get(port) == port.inner

InitPort ==
    /\ InitController
    /\ InitUrbs
    /\ InitLoopOff
    /\ arg \in {[fn |-> "Port::new", port |-> p] : p \in Bytes}
    /\ ret = NotCalled
    /\ inflight = NoFlights

CallPortNew ==
    /\ arg.fn = "Port::new"
    /\ ret = NotCalled
    /\ ret' = Port_new(arg.port)
    /\ UNCHANGED <<ctlVars, last, arg, urbVars, loopVars, inflight>>

\* Port::get on the Port that Port::new returned.
CallPortGet ==
    /\ arg.fn = "Port::new"
    /\ ret.tag = "Some"
    /\ ret' = [tag |-> "get", v |-> Port_get(ret.v)]
    /\ UNCHANGED <<ctlVars, last, arg, urbVars, loopVars, inflight>>

NextPort ==
    \/ CallPortNew
    \/ CallPortGet

SpecPort == InitPort /\ [][NextPort]_vars

\* C21 as stated: Port::new(p) yields a Port exactly when 1 <= p <= 32, and
\* Port::get returns the value the Port was constructed with.
C21_PortRangeUpTo32 ==
    /\ ret.tag \in {"Some", "None"} =>
          (ret.tag = "Some" <=> (1 <= arg.port /\ arg.port <= 32))
    /\ ret.tag = "get" => ret.v = arg.port

\* C21: Port::new(p) yields a Port exactly when 1 <= p <= 31 (the upper bound
\* 32 of the BoundedU8 is exclusive), and Port::get returns the value the
\* Port was constructed with.
C21_PortRangeUpTo31 ==
    /\ ret.tag \in {"Some", "None"} =>
          (ret.tag = "Some" <=> (1 <= arg.port /\ arg.port <= 31))
    /\ ret.tag = "get" => ret.v = arg.port

\* The highest port there is has been constructed and read back.
C21_Witness ==
    /\ arg.fn = "Port::new"
    /\ arg.port = 31
    /\ ret.tag = "get"
    /\ ret.v = 31

(***************************************************************************)
(* Claims about the Controller.                                            *)
(***************************************************************************)
\* WorkReceivers alive that carry Controller c's descriptor and were issued
\* by it.
Outstanding(c) == receivers[HandleOf(c)]

\* C1: in every reachable state at most one WorkReceiver issued for a given
\* Controller is outstanding, also when WorkReceivers of several Controllers
\* exist and are returned.
C1_AtMostOneOutstanding ==
    \A c \in Slots : Alive(c) => Outstanding(c) <= 1

PortsBefore == controllers[last'.c].open_ports
PortsAfter == controllers'[last'.c].open_ports

OthersUnchanged(p) ==
    /\ Len(PortsAfter) = Len(PortsBefore)
    /\ \A q \in 1..Len(PortsBefore) : q # p => PortsAfter[q] = PortsBefore[q]
    /\ \A d \in Slots : d # last'.c => controllers'[d] = controllers[d]

\* C2: a successful port_connect_any occupies exactly one port that was free
\* before the call, returns that port, which is the lowest-numbered free
\* port, and leaves the occupancy of every other port as it was.
C2_ConnectAnyOccupiesFirstFree ==
    [][(last'.op = "port_connect_any" /\ last'.res = "Ok") =>
          /\ last'.p \in 1..Len(PortsBefore)
          /\ ~PortsBefore[last'.p]
          /\ PortsAfter[last'.p]
          /\ \A q \in 1..(last'.p - 1) : PortsBefore[q]
          /\ OthersUnchanged(last'.p)]_vars

\* port_connect_any has returned port 2 of a Controller whose port 1 was
\* already occupied.
C2_Witness ==
    /\ last.op = "port_connect_any"
    /\ last.res = "Ok"
    /\ last.p = 2
    /\ controllers[last.c].open_ports = <<TRUE, TRUE>>

\* C3: after a successful port_disconnect(p), p is free again: free_ports
\* counts it and a later port_connect_any can return it; the occupancy of
\* every other port is as it was.
C3_DisconnectFreesPort ==
    [][(last'.op = "port_disconnect" /\ last'.res = "Ok") =>
          /\ ~PortsAfter[last'.p]
          /\ last'.p \in FreeIndexes(PortsAfter)
          /\ Cardinality(FreeIndexes(PortsAfter)) =
                Cardinality(FreeIndexes(PortsBefore)) +
                    (IF PortsBefore[last'.p] THEN 1 ELSE 0)
          /\ FirstFreePosition(PortsAfter) + 1 <= last'.p
          /\ FirstFreePosition(PortsAfter) # -1
          /\ OthersUnchanged(last'.p)]_vars

\* port_disconnect has freed port 1 while port 2 of the same Controller
\* stays occupied.
C3_Witness ==
    /\ last.op = "port_disconnect"
    /\ last.res = "Ok"
    /\ last.p = 1
    /\ controllers[last.c].open_ports = <<FALSE, TRUE>>

\* C4: port_connect_any on a Controller whose ports are all occupied returns
\* an error to the caller, does not abort, and leaves the bitmap unchanged.
C4_ConnectAnyWhenFullIsAnError ==
    [][(last'.op = "port_connect_any" /\ FreeIndexes(PortsBefore) = {}) =>
          /\ last'.res \notin {"Ok", "Panic"}
          /\ ~panicked'
          /\ controllers' = controllers]_vars

\* The results that are an I/O error of the platform.
IoErrors == {"EBADF", "EINVAL", "ENODEV", "ENOENT", "EINTR", "ETIMEDOUT",
             "ECANCELED", "EBADMSG"}

\* C8: after the Controller is destroyed, every operation on a Remote or
\* WorkReceiver obtained from it fails with an I/O error: it never crashes
\* and never succeeds, whatever the process does with descriptors afterwards.
C8_StaleHandleFails ==
    (last.stale /\ last.op \in RemotePortOps \cup {"WorkReceiver::fetch_work"}) =>
        /\ last.res \in IoErrors
        /\ ~panicked

\* C14: while a WorkReceiver of a Controller is outstanding, every attempt to
\* reach the receive path through the Controller (work_receiver, fetch_work,
\* fetch_work_timeout) fails with an already-exists error, without a panic,
\* issues no fetch-work ioctl and leaves the split flag and the occupancy
\* bitmap as they were.
C14_SplitAttemptsFail ==
    [][\A c \in Slots :
          (/\ Alive(c)
           /\ Outstanding(c) > 0
           /\ last'.c = c
           /\ last'.op \in {"work_receiver", "fetch_work"}) =>
              /\ last'.res = "AlreadyExists"
              /\ last'.ioc = "none"
              /\ ~panicked'
              /\ controllers'[c] = controllers[c]]_vars

\* C15: no two fetch-work calls are in flight at the same time on one
\* descriptor, whatever threads hold references to a Controller and to its
\* WorkReceiver.
C15_NoConcurrentFetchWork ==
    \A t, u \in Threads :
        (t # u /\ inflight[t] # NoFlight /\ inflight[u] # NoFlight) =>
            inflight[t].h.dev # inflight[u].h.dev

\* C36: the receive capability is never lost: whenever no WorkReceiver of a
\* Controller is outstanding any more (the one it issued was returned with
\* return_work_receiver, or dropped), the Controller issues a WorkReceiver
\* when asked and fetches work itself without an already-exists error.
C36_CapabilityComesBack ==
    [][\A c \in Slots :
          (/\ Alive(c)
           /\ Outstanding(c) = 0
           /\ last'.c = c
           /\ last'.op \in {"work_receiver", "fetch_work"}) =>
              last'.res \notin {"None", "AlreadyExists"}]_vars

\* The operations of a Remote.
RemoteOps == RemotePortOps \cup {"fetch_data", "giveback"}

\* C23: no operation of a Remote (fetch_data, giveback, port_disable,
\* port_resumed, port_overcurrent, port_reset_done), whether it succeeds,
\* fails or panics, changes a Controller: the occupancy bitmap and the
\* split flag are as they were.
C23_RemoteLeavesControllerAlone ==
    [][last'.op \in RemoteOps =>
          \A c \in Slots :
              /\ controllers'[c].open_ports = controllers[c].open_ports
              /\ controllers'[c].work_recv_split = controllers[c].work_recv_split]_vars

\* A Remote has disabled a port that the bitmap of its Controller shows as
\* connected, with the work receiver split off: both are as before.
C23_Witness ==
    /\ last.op = "port_disable"
    /\ last.res = "Ok"
    /\ last.c \in Slots
    /\ controllers[last.c].open_ports[last.p]
    /\ controllers[last.c].work_recv_split

\* Ports of Controller c that its bitmap marks as occupied.
Occupied(c) ==
    {i \in 1..Len(controllers[c].open_ports) : controllers[c].open_ports[i]}

\* C33: for every Controller, opened with N ports, free_ports() is N minus
\* the number of ports marked occupied and is_active() holds exactly when a
\* port is occupied; right after open the N ports are free, is_active() is
\* false and no WorkReceiver is split off.
C33_OccupancyAggregates ==
    /\ \A c \in Slots :
          Alive(c) =>
             /\ free_ports(c) = Len(controllers[c].open_ports)
                                   - Cardinality(Occupied(c))
             /\ is_active(c) <=> Occupied(c) # {}
    /\ (last.op = "open" /\ last.res = "Ok") =>
          /\ Len(controllers[last.c].open_ports) = last.p
          /\ free_ports(last.c) = last.p
          /\ ~is_active(last.c)
          /\ ~controllers[last.c].work_recv_split

\* A Controller of two ports has one of them occupied: one port is free and
\* the Controller is active.
C33_Witness ==
    \E c \in Slots :
        /\ Alive(c)
        /\ Len(controllers[c].open_ports) = 2
        /\ Cardinality(Occupied(c)) = 1
        /\ free_ports(c) = 1
        /\ is_active(c)

\* The calls that change the occupancy bitmap.
PortCallOps == {"port_connect", "port_connect_any", "port_disconnect"}

\* C35: when the port-stat ioctl of port_connect, port_connect_any or
\* port_disconnect fails, the call returns the ioctl's error and the
\* Controller is as it was; the bitmap changes only in a call whose ioctl
\* succeeded.
C35_FailedPortCallChangesNothing ==
    [][last'.op \in PortCallOps =>
          /\ last'.ioc \notin {"Ok", "none"} =>
                /\ last'.res = last'.ioc
                /\ controllers' = controllers
          /\ controllers' # controllers => last'.ioc = "Ok"]_vars

\* A port_disconnect of an occupied port has failed with ENODEV: the error
\* was returned and the port is still marked occupied.
C35_Witness ==
    /\ last.op = "port_disconnect"
    /\ last.ioc = "ENODEV"
    /\ last.res = "ENODEV"
    /\ controllers[last.c].open_ports[last.p]

(***************************************************************************)
(* The library's callers: any sequence of the calls above.                 *)
(***************************************************************************)
Init ==
    /\ InitController
    /\ InitUrbs
    /\ InitLoopOff
    /\ arg = NoArg
    /\ ret = NotCalled
    /\ inflight = NoFlights

\* Callers that connect ports, split off the work receiver, take Remotes and
\* use them for the ports and for the URBs the receiver fetches.
NextRemote ==
    \/ Open(1, MaxPorts)
    \/ \E p \in 1..MaxPorts : port_connect(1, p)
    \/ work_receiver(1)
    \/ remote(1)
    \/ \E r \in Handles, op \in RemotePortOps, p \in 1..MaxPorts :
          Remote_port_op(r, op, p)
    \/ \E r \in Handles : WorkReceiver_fetch_work_timeout(r)
    \/ \E r \in RemoteHandles, h \in UrbHandles : Remote_fetch_data(r, h)
    \/ \E r \in RemoteHandles, h \in UrbHandles : Remote_giveback(r, h)

SpecRemote == Init /\ [][NextRemote]_vars

\* Callers that split off, return and drop WorkReceivers of several Controllers.
NextSplit ==
    \/ \E c \in Slots, n \in 1..MaxPorts : Open(c, n)
    \/ \E c \in Slots : work_receiver(c)
    \/ \E c \in Slots, r \in Handles : return_work_receiver(c, r)
    \/ \E r \in Handles : DropReceiver(r)

SpecSplit == Init /\ [][NextSplit]_vars

\* Callers that connect and disconnect ports.
NextPorts ==
    \/ \E c \in Slots, n \in 1..MaxPorts : Open(c, n)
    \/ \E c \in Slots, p \in 1..MaxPorts : port_connect(c, p)
    \/ \E c \in Slots : port_connect_any(c)
    \/ \E c \in Slots, p \in 1..MaxPorts : port_disconnect(c, p)

SpecPorts == Init /\ [][NextPorts]_vars

\* Callers that keep handles of a Controller after dropping it.
NextStale ==
    \/ \E c \in Slots : Open(c, MaxPorts)
    \/ \E c \in Slots : DropController(c)
    \/ \E c \in Slots : remote(c)
    \/ \E c \in Slots : work_receiver(c)
    \/ \E r \in Handles, op \in RemotePortOps : Remote_port_op(r, op, 1)
    \/ \E r \in Handles : WorkReceiver_fetch_work_timeout(r)

SpecStale == Init /\ [][NextStale]_vars

\* Callers that split off and return WorkReceivers and fetch work through the
\* Controllers and the WorkReceivers, one call at a time.
NextSplitFetch ==
    \/ \E c \in Slots : Open(c, MaxPorts)
    \/ \E c \in Slots : work_receiver(c)
    \/ \E c \in Slots, r \in Handles : return_work_receiver(c, r)
    \/ \E c \in Slots : Controller_fetch_work_timeout(c)
    \/ \E r \in Handles : WorkReceiver_fetch_work_timeout(r)

SpecSplitFetch == Init /\ [][NextSplitFetch]_vars

\* Threads that share the Controllers and the WorkReceivers by reference and
\* fetch work through them.
NextThreads ==
    \/ \E c \in Slots : Open(c, MaxPorts)
    \/ \E c \in Slots : work_receiver(c)
    \/ \E c \in Slots, r \in Handles : return_work_receiver(c, r)
    \/ \E t \in Threads, c \in Slots : Controller_fetch_work_enter(t, c)
    \/ \E t \in Threads, r \in Handles : WorkReceiver_fetch_work_enter(t, r)
    \/ \E t \in Threads : fetch_work_return(t)

SpecThreads == Init /\ [][NextThreads]_vars

=============================================================================
